---- MODULE Spec2Model ----
(***************************************************************************)
(* A model of photostructure/fs-metadata's native layer: the capacity      *)
(* arithmetic, the single-volume metadata workers (Linux, macOS, Windows), *)
(* the bulk mount enumeration with its accessibility probes, and the       *)
(* gates around the thread-unsafe providers.                               *)
(*                                                                         *)
(* uint64_t is modelled as an unsigned integer of U64Bits bits and a       *)
(* double as a binary float with DoubleBits bits of significand, so that   *)
(* wrap-around and rounding happen inside the checked range.               *)
(***************************************************************************)
EXTENDS Integers, Sequences, FiniteSets, TLC

\* ------------------------------------------------------------------ bounds
U64Bits == 3
DoubleBits == 2

RECURSIVE Pow2(_)
Pow2(n) == IF n = 0 THEN 1 ELSE 2 * Pow2(n - 1)

Mod64 == Pow2(U64Bits)
\* std::numeric_limits<uint64_t>::max()
MaxU64 == Mod64 - 1
U64 == 0..MaxU64

\* ------------------------------------------------------- integer arithmetic
\* uint64_t multiplication and subtraction: the result modulo 2^64.
Mul64(a, b) == (a * b) % Mod64
Sub64(a, b) == (a - b + Mod64) % Mod64

\* volume_utils.h: b > 0 && a > max / b
WouldOverflow(a, b) == b > 0 /\ a > MaxU64 \div b

\* static_cast<double>(uint64_t): round to nearest, ties to even, with a
\* significand of DoubleBits bits.
RECURSIVE Ulp(_, _)
Ulp(n, u) == IF n < Pow2(DoubleBits) * u THEN u ELSE Ulp(n, 2 * u)

RoundNearestEven(n) ==
  LET u == Ulp(n, 1)
      q == n \div u
      r == n % u
  IN  IF 2 * r < u THEN q * u
      ELSE IF 2 * r > u THEN (q + 1) * u
      ELSE IF q % 2 = 0 THEN q * u ELSE (q + 1) * u

ToDouble(n) == IF n >= 0 THEN RoundNearestEven(n) ELSE 0 - RoundNearestEven(0 - n)

\* ----------------------------------------------------------- capacity step
\* What fstatvfs reports: any unsigned values.
StatVfs == [f_frsize : U64, f_bsize : {1, MaxU64}, f_blocks : U64,
            f_bfree : U64, f_bavail : U64]

BlockSizeOf(vfs) == IF vfs.f_frsize # 0 THEN vfs.f_frsize ELSE vfs.f_bsize

CapError(msg) == [ok |-> FALSE, error |-> msg, size |-> 0, available |-> 0, used |-> 0]
CapOk(s, a, u) == [ok |-> TRUE, error |-> "", size |-> s, available |-> a, used |-> u]

\* linux/volume_metadata.cpp:75-95
LinuxCapacity(vfs) ==
  LET blockSize == BlockSizeOf(vfs)
      totalBlocks == vfs.f_blocks
      availBlocks == vfs.f_bavail
      freeBlocks == vfs.f_bfree
  IN  IF WouldOverflow(blockSize, totalBlocks)
        THEN CapError("Total volume size calculation would overflow")
      ELSE IF WouldOverflow(blockSize, availBlocks)
        THEN CapError("Available space calculation would overflow")
      ELSE IF WouldOverflow(blockSize, freeBlocks)
        THEN CapError("Free space calculation would overflow")
      ELSE CapOk(ToDouble(Mul64(blockSize, totalBlocks)),
                 ToDouble(Mul64(blockSize, availBlocks)),
                 ToDouble(Mul64(blockSize, Sub64(totalBlocks, freeBlocks))))

\* darwin/volume_metadata.cpp:157-184
DarwinCapacity(vfs) ==
  LET blockSize == BlockSizeOf(vfs)
      totalBlocks == vfs.f_blocks
      availBlocks == vfs.f_bavail
      freeBlocks == vfs.f_bfree
  IN  IF WouldOverflow(blockSize, totalBlocks)
        THEN CapError("Total volume size calculation would overflow")
      ELSE IF WouldOverflow(blockSize, availBlocks)
        THEN CapError("Available space calculation would overflow")
      ELSE IF WouldOverflow(blockSize, freeBlocks)
        THEN CapError("Free space calculation would overflow")
      ELSE LET totalSize == Mul64(blockSize, totalBlocks)
               availableSize == Mul64(blockSize, availBlocks)
               usedSize == Mul64(blockSize, Sub64(totalBlocks, freeBlocks))
           IN  CapOk(ToDouble(totalSize), ToDouble(availableSize), ToDouble(usedSize))

NoVfs == [f_frsize |-> 0, f_bsize |-> 1, f_blocks |-> 0, f_bfree |-> 0, f_bavail |-> 0]

\* What GetDiskFreeSpaceEx reports: bytes available to the caller and total bytes.
DiskSpace == [totalBytes : U64, freeBytes : U64]

\* windows/volume_metadata.cpp:133-138, 200-202: used is a subtraction of doubles.
WindowsCapacity(ds) ==
  LET size == ToDouble(ds.totalBytes)
      available == ToDouble(ds.freeBytes)
  IN  CapOk(size, available, ToDouble(size - available))

\* ------------------------------------------------------------------- paths
\* A path is a sequence of bytes; "0" stands for the NUL byte.
MaxPathLen == 2
Chars == {"/", "a", ".", "0"}

RECURSIVE SeqsUpTo(_)
SeqsUpTo(n) ==
  IF n = 0 THEN {<<>>}
  ELSE LET shorter == SeqsUpTo(n - 1)
       IN  shorter \cup {Append(s, c) : s \in {t \in shorter : Len(t) = n - 1}, c \in Chars}

Paths == SeqsUpTo(MaxPathLen)

HasNul(p) == \E i \in 1..Len(p) : p[i] = "0"

\* std::string::c_str() as a C function reads it: the bytes before the first NUL.
RECURSIVE CStrFrom(_, _)
CStrFrom(p, i) ==
  IF i > Len(p) \/ p[i] = "0" THEN <<>> ELSE <<p[i]>> \o CStrFrom(p, i + 1)

CStr(p) == CStrFrom(p, 1)

\* The file system the calls run against: the root directory, which holds at
\* most one entry "a" (a directory, a regular file, or nothing). The working
\* directory is the root.
EntryKinds == {"none", "dir", "file"}

\* One component of a path applied to the object reached so far.
StepInto(cur, comp, entryA) ==
  IF cur \in {"ENOENT", "ENOTDIR"} THEN cur
  ELSE IF cur = "file" THEN "ENOTDIR"
  ELSE IF comp = <<>> \/ comp = <<".">> THEN cur
  ELSE IF comp = <<".", ".">> THEN "root"
  ELSE IF comp = <<"a">> /\ cur = "root" /\ entryA # "none" THEN entryA
  ELSE "ENOENT"

RECURSIVE Walk(_, _, _, _, _)
Walk(p, i, cur, comp, entryA) ==
  IF i > Len(p) THEN (IF comp = <<>> THEN cur ELSE StepInto(cur, comp, entryA))
  ELSE IF p[i] = "/"
    THEN Walk(p, i + 1, StepInto(StepInto(cur, comp, entryA), <<>>, entryA), <<>>, entryA)
  ELSE Walk(p, i + 1, cur, Append(comp, p[i]), entryA)

\* Kernel path resolution of a C string: the object reached ("root", "dir",
\* "file") or the errno.
Lookup(cstr, entryA) ==
  IF cstr = <<>> THEN "ENOENT" ELSE Walk(cstr, 1, "root", <<>>, entryA)

IsErrno(x) == x \in {"ENOENT", "ENOTDIR", "EACCES", "EIO"}

CanonicalOf(obj) == IF obj = "root" THEN <<"/">> ELSE <<"/", "a">>

\* ---------------------------------------------------------- path validation
\* realpath(3) of a C string: the canonical path of the object, or the errno.
RealPath(cstr, kindA) ==
  LET obj == Lookup(cstr, kindA)
  IN  IF IsErrno(obj) THEN [ok |-> FALSE, path |-> <<>>, errno |-> obj]
      ELSE [ok |-> TRUE, path |-> CanonicalOf(obj), errno |-> ""]

\* std::string::find_last_of('/'): the index of the last slash, 0 for npos.
RECURSIVE FindLastSlashFrom(_, _)
FindLastSlashFrom(p, i) ==
  IF i = 0 THEN 0 ELSE IF p[i] = "/" THEN i ELSE FindLastSlashFrom(p, i - 1)

FindLastSlash(p) == FindLastSlashFrom(p, Len(p))

Validated(p) == [path |-> p, error |-> [operation |-> "", path |-> <<>>, errno |-> ""]]
Refused(op, p, e) == [path |-> <<>>, error |-> [operation |-> op, path |-> p, errno |-> e]]

\* The validator with the parent and the leaf always joined by a slash.
JoinedWithSlash(path, allow_nonexistent, kindA) ==
  IF path = <<>> THEN Refused("", <<>>, "Empty path provided")
  ELSE IF HasNul(path) THEN Refused("", <<>>, "Invalid path containing null byte")
  ELSE
    LET resolved == RealPath(path, kindA)
    IN  IF resolved.ok THEN Validated(resolved.path)
        ELSE IF resolved.errno = "ENOENT" /\ allow_nonexistent
          THEN LET last_slash == FindLastSlash(path)
                   parent_dir == IF last_slash = 0 THEN <<".">>
                                 ELSE IF last_slash = 1 THEN <<"/">>
                                 ELSE SubSeq(path, 1, last_slash - 1)
                   parent == RealPath(parent_dir, kindA)
                   filename == IF last_slash = 0 THEN path
                               ELSE SubSeq(path, last_slash + 1, Len(path))
               IN  IF ~parent.ok
                     THEN Refused("realpath (parent)", parent_dir, parent.errno)
                   ELSE Validated(parent.path \o <<"/">> \o filename)
        ELSE Refused("realpath", path, resolved.errno)

\* common/path_security.h:35-124
ValidateAndCanonicalizePath(path, allow_nonexistent, kindA) ==
  IF path = <<>> THEN Refused("", <<>>, "Empty path provided")
  ELSE IF HasNul(path) THEN Refused("", <<>>, "Invalid path containing null byte")
  ELSE
    LET resolved == RealPath(path, kindA)
    IN  IF resolved.ok THEN Validated(resolved.path)
        ELSE IF resolved.errno = "ENOENT" /\ allow_nonexistent
          THEN LET last_slash == FindLastSlash(path)
                   parent_dir == IF last_slash = 0 THEN <<".">>
                                 ELSE IF last_slash = 1 THEN <<"/">>
                                 ELSE SubSeq(path, 1, last_slash - 1)
                   parent == RealPath(parent_dir, kindA)
                   filename == IF last_slash = 0 THEN path
                               ELSE SubSeq(path, last_slash + 1, Len(path))
               IN  IF ~parent.ok
                     THEN Refused("realpath (parent)", parent_dir, parent.errno)
                   ELSE IF parent.path = <<"/">>
                     THEN Validated(<<"/">> \o filename)
                   ELSE Validated(parent.path \o <<"/">> \o filename)
        ELSE Refused("realpath", path, resolved.errno)

\* path_security.h:134-137
ValidatePathForRead(path, kindA) == ValidateAndCanonicalizePath(path, FALSE, kindA)

\* Whether p holds the bytes of q somewhere (std::string::find).
Contains(p, q) ==
  \E i \in 1..(Len(p) - Len(q) + 1) : SubSeq(p, i, i + Len(q) - 1) = q

\* windows/security_utils.h:20-105, for paths over this alphabet (no
\* backslash, colon or device name can occur in them).
IsPathSecure(path) ==
  /\ path # <<>>
  /\ ~HasNul(path)
  /\ ~(Len(path) >= 2 /\ SubSeq(path, 1, 2) = <<".", ".">>)
  /\ ~Contains(path, <<".", ".", "/">>)
  /\ ~Contains(path, <<"/", ".", ".">>)

\* ------------------------------------------------------- volume metadata
\* VolumeMetadata (common/volume_metadata.h:40-55). The three doubles have no
\* initializer: until the worker writes them they are indeterminate.
Uninit == 0 - Pow2(U64Bits + 2)

NewMetadata ==
  [label |-> "", fstype |-> "", size |-> Uninit, used |-> Uninit,
   available |-> Uninit, uuid |-> "", mountFrom |-> "", mountName |-> "",
   uri |-> "", status |-> "", remote |-> FALSE, remoteHost |-> "",
   remoteShare |-> "", isSystemVolume |-> FALSE, error |-> ""]

\* What reading an indeterminate double may yield.
IndeterminateDoubles == {0 - 1, 0, Pow2(U64Bits + 1)}

Readings(x) == IF x = Uninit THEN IndeterminateDoubles ELSE {x}

\* MetadataWorkerBase::CreateResultObject: the object the promise resolves
\* with, given what reading the three doubles yields. It carries neither
\* metadata.error nor isSystemVolume.
CreateResultObject(md, read) ==
  [label |-> md.label, fstype |-> md.fstype,
   size |-> read[1], used |-> read[2], available |-> read[3],
   uuid |-> md.uuid, mountFrom |-> md.mountFrom, mountName |-> md.mountName,
   uri |-> md.uri, status |-> md.status, remote |-> md.remote,
   remoteHost |-> md.remoteHost, remoteShare |-> md.remoteShare]

NoResult == [status |-> "(none)"]

\* error_utils.h CreatePathErrorMessage: operation, path and errno.
CreatePathErrorMessage(operation, path, errno) ==
  [operation |-> operation, path |-> path, errno |-> errno]

PlainError(msg) == [operation |-> "", path |-> <<>>, errno |-> msg]

NoError == PlainError("")

\* fstatvfs reports used by the whole-call model: an ordinary volume, one whose
\* size overflows, one with more available than free blocks, one with more
\* free than total blocks.
VfsSamples ==
  { [f_frsize |-> 1, f_bsize |-> 1, f_blocks |-> 2, f_bfree |-> 1, f_bavail |-> 1],
    [f_frsize |-> 2, f_bsize |-> 1, f_blocks |-> MaxU64, f_bfree |-> 0, f_bavail |-> 0],
    [f_frsize |-> 0, f_bsize |-> 1, f_blocks |-> 2, f_bfree |-> 0, f_bavail |-> 1],
    [f_frsize |-> 1, f_bsize |-> 1, f_blocks |-> 1, f_bfree |-> 2, f_bavail |-> 0] }

\* ------------------------------------------------------------------ state
\* The capacity step run on its own.
VARIABLES
  cap_pc,        \* "start", "done"
  cap_platform,  \* whose capacity code ran
  cap_in,        \* the figures the OS reported
  cap_out        \* what the capacity code made of them

capVars == <<cap_pc, cap_platform, cap_in, cap_out>>

\* getVolumeMountPoints: one enumeration and its accessibility probes.
VARIABLES
  mp_platform,   \* "darwin", "windows": the build
  mp_pc,         \* the position of GetVolumeMountPointsWorker
  mntbuf,        \* the mount table as the OS enumerates it
  poolSize,      \* std::thread::hardware_concurrency(), the pool's threads
  paths,         \* the drives to check (Windows)
  futures,       \* the futures the worker holds, by mount
  probe,         \* each mount's probe: "none", "queued", "running", "done"
  tasks,         \* WorkQueue::tasks
  expired,       \* timeoutMs has passed since startTime (CheckMultipleDrives)
  statuses,      \* the results of CheckMultipleDrives
  mountPoints_,  \* GetVolumeMountPointsWorker::mountPoints_
  mp_i,          \* the first mount of the current batch (macOS)
  mp_outcome,    \* "pending", "rejected", "resolved"
  mp_result      \* the array the promise resolved with

probeVars == <<mp_platform, mp_pc, mntbuf, poolSize, paths, futures, probe, tasks,
               expired, statuses, mountPoints_, mp_i, mp_outcome, mp_result>>

\* getVolumeMetadata calls.
VARIABLES
  platform,      \* "linux", "darwin", "windows": the build
  enableGio,     \* the ENABLE_GIO build flag
  entryA,        \* the kind of the file system's entry "a"
  calls,         \* the getVolumeMetadata calls this run makes
  inputs,        \* what this run's callers pass and the OS may report
  pc,            \* each call's position
  arg,           \* the mountPoint the caller passed
  mountPoint,    \* MetadataWorkerBase::mountPoint
  options_,      \* VolumeMetadataOptions
  metadata,      \* MetadataWorkerBase::metadata
  fd,            \* the descriptor the call holds: "none", the object, "closed"
  vfs,           \* the last fstatvfs report
  fs,            \* the last fstatfs report (macOS)
  issued,        \* the OS and provider calls the call has made, in order
  outcome,       \* "pending", "threw", "rejected", "resolved"
  errorMsg,      \* the message of SetError
  result,        \* the object the promise resolved with
  monitorUsers,  \* who holds the GVolumeMonitor singleton and its mount list
  g_diskArbitrationMutex,  \* the call that holds the mutex, or 0
  volume,        \* the object now mounted at the path (it can be replaced)
  kernel         \* per call: the object its descriptor refers to, its opens and
                 \* closes, and the objects its capacity and type queries described

\* isHidden / setHidden: one Get- or SetHiddenWorker.
VARIABLES
  hw,            \* the worker: its fields, the locals of Execute, its promise
  attributes     \* each object's attribute bits (st_flags, dwFileAttributes)

hiddenVars == <<hw, attributes>>

\* FdGuard objects and the descriptors they were given.
VARIABLES
  guards,        \* each FdGuard: whether it is alive, and its fd_
  descriptors    \* each descriptor: "free", "open", "released", "closed", or
                 \* "EBADF" once close() was called on it while it was not open

guardVars == <<guards, descriptors>>

\* One use of a path validator on two spellings of the same object.
VARIABLES
  pv             \* the spellings, the file system, and what the validator returned

pathVars == <<pv>>

\* One run of a piece of code that takes buffers from a C provider.
VARIABLES
  rs             \* its position and the references it holds, released and copied

resVars == <<rs>>

\* the timeoutMs option on its way to the wait it bounds
VARIABLES
  tm             \* one call: the option, the ceiling of its wait, the time waited

timeoutVars == <<tm>>

\* the Windows thread pool and its work queue
VARIABLES
  tp             \* queue, event, flags, submitter, workers, the thread calling Shutdown

poolVars == <<tp>>

NoFs == [f_fstypename |-> "", f_mntfromname |-> ""]

\* fstatfs reports: a local volume and a network mount.
FsSamples == { [f_fstypename |-> "apfs", f_mntfromname |-> "/dev/disk1"],
               [f_fstypename |-> "smbfs", f_mntfromname |-> "//host/share"] }

MaxCalls == 2
CallIds == 1..MaxCalls

metaVars == <<platform, enableGio, entryA, calls, inputs, pc, arg, mountPoint, options_,
              metadata, fd, vfs, fs, issued, outcome, errorMsg, result,
              monitorUsers, g_diskArbitrationMutex, volume, kernel>>

build == <<platform, enableGio, entryA, calls, inputs, arg, fs, volume>>

vars == <<capVars, metaVars, probeVars, hiddenVars, guardVars, pathVars, resVars, timeoutVars, poolVars>>

\* What no step of a metadata call, of an enumeration, of the capacity step
\* touches.
notMeta == <<capVars, probeVars, hiddenVars, guardVars, pathVars, resVars, timeoutVars, poolVars>>
notProbe == <<capVars, metaVars, hiddenVars, guardVars, pathVars, resVars, timeoutVars, poolVars>>
notCap == <<metaVars, probeVars, hiddenVars, guardVars, pathVars, resVars, timeoutVars, poolVars>>
notHidden == <<capVars, metaVars, probeVars, guardVars, pathVars, resVars, timeoutVars, poolVars>>
notGuard == <<capVars, metaVars, probeVars, hiddenVars, pathVars, resVars, timeoutVars, poolVars>>
notPath == <<capVars, metaVars, probeVars, hiddenVars, guardVars, resVars, timeoutVars, poolVars>>
notRes == <<capVars, metaVars, probeVars, hiddenVars, guardVars, pathVars, timeoutVars, poolVars>>
notTimeout == <<capVars, metaVars, probeVars, hiddenVars, guardVars, pathVars, resVars, poolVars>>
notPool == <<capVars, metaVars, probeVars, hiddenVars, guardVars, pathVars, resVars, timeoutVars>>

\* The objects that can be mounted at the path, one after the other.
MaxVolumes == 2

NoKernel == [opened |-> 0, opens |-> 0, closes |-> 0, capacity |-> 0, fstype |-> 0]

\* The process-wide state next to the calls' own.
shared == <<monitorUsers, g_diskArbitrationMutex>>

MetaIdle ==
  /\ pc = [w \in CallIds |-> "idle"]
  /\ arg = [w \in CallIds |-> <<>>]
  /\ mountPoint = [w \in CallIds |-> <<>>]
  /\ fs = [w \in CallIds |-> NoFs]
  /\ options_ = [w \in CallIds |-> [device |-> ""]]
  /\ metadata = [w \in CallIds |-> NewMetadata]
  /\ fd = [w \in CallIds |-> "none"]
  /\ vfs = [w \in CallIds |-> NoVfs]
  /\ issued = [w \in CallIds |-> <<>>]
  /\ outcome = [w \in CallIds |-> "pending"]
  /\ errorMsg = [w \in CallIds |-> NoError]
  /\ result = [w \in CallIds |-> NoResult]
  /\ monitorUsers = {}
  /\ g_diskArbitrationMutex = 0
  /\ volume = 1
  /\ kernel = [w \in CallIds |-> NoKernel]

\* No metadata call is made in this run.
MetaOff ==
  /\ platform = "none"
  /\ enableGio = FALSE
  /\ entryA = "none"
  /\ calls = {}
  /\ inputs = [mountPoints |-> {}, devices |-> {}, reports |-> {}]
  /\ MetaIdle

\* One call, on any build and file system.
MetaInit ==
  /\ platform \in {"linux", "darwin", "windows"}
  /\ enableGio \in (IF platform = "linux" THEN BOOLEAN ELSE {FALSE})
  /\ entryA \in EntryKinds
  /\ calls = {1}
  /\ inputs = [mountPoints |-> Paths, devices |-> {"", "dev"}, reports |-> VfsSamples]
  /\ MetaIdle

\* AsyncWorker::SetError: Execute returns and OnError rejects the promise.
SetError(w, msg) ==
  /\ errorMsg' = [errorMsg EXCEPT ![w] = msg]
  /\ pc' = [pc EXCEPT ![w] = "onerror"]

\* ~FdGuard: close(fd_) when the guard holds a descriptor.
CloseFd(w) ==
  /\ fd' = [fd EXCEPT ![w] = IF fd[w] = "none" THEN "none" ELSE "closed"]
  /\ kernel' = [kernel EXCEPT ![w].closes = IF fd[w] = "none" THEN @ ELSE @ + 1]

Issue(w, call) == issued' = [issued EXCEPT ![w] = Append(issued[w], call)]

\* A provider call that failed: the call and the failure are both on record.
IssueFailed(w, call) ==
  issued' = [issued EXCEPT ![w] = issued[w] \o <<call, "failed">>]

\* GetVolumeMetadata(info): the caller's arguments reach a new worker.
Call(w) ==
  /\ w \in calls
  /\ pc[w] = "idle"
  /\ \E p \in inputs.mountPoints, dev \in inputs.devices :
       /\ arg' = [arg EXCEPT ![w] = p]
       /\ mountPoint' = [mountPoint EXCEPT ![w] = p]
       /\ options_' = [options_ EXCEPT ![w] = [device |-> dev]]
  /\ pc' = [pc EXCEPT ![w] = "ctor"]
  /\ UNCHANGED <<notMeta, kernel, volume, platform, enableGio, entryA, calls, inputs, fs, metadata,
                 fd, vfs, issued, outcome, errorMsg, result, shared>>

\* MetadataWorkerBase::OnError
OnError(w) ==
  /\ pc[w] = "onerror"
  /\ outcome' = [outcome EXCEPT ![w] = "rejected"]
  /\ pc' = [pc EXCEPT ![w] = "done"]
  /\ UNCHANGED <<notMeta, kernel, build, mountPoint, options_,
                 metadata, fd, vfs, issued, errorMsg, result, shared>>

\* MetadataWorkerBase::OnOK
OnOK(w) ==
  /\ pc[w] = "onok"
  /\ \E g1 \in Readings(metadata[w].size), g2 \in Readings(metadata[w].used),
        g3 \in Readings(metadata[w].available) :
       result' = [result EXCEPT ![w] = CreateResultObject(metadata[w], <<g1, g2, g3>>)]
  /\ outcome' = [outcome EXCEPT ![w] = "resolved"]
  /\ pc' = [pc EXCEPT ![w] = "done"]
  /\ UNCHANGED <<notMeta, kernel, build, mountPoint, options_,
                 metadata, fd, vfs, issued, errorMsg, shared>>

\* ------------------------------------------- Linux: LinuxMetadataWorker

\* The constructor: only the empty mount point is refused (a thrown
\* std::invalid_argument, before any worker is queued).
LinuxCtor(w) ==
  /\ platform = "linux" /\ pc[w] = "ctor"
  /\ IF mountPoint[w] = <<>>
       THEN /\ outcome' = [outcome EXCEPT ![w] = "threw"]
            /\ errorMsg' = [errorMsg EXCEPT ![w] = PlainError("Mount point cannot be empty")]
            /\ pc' = [pc EXCEPT ![w] = "done"]
       ELSE /\ pc' = [pc EXCEPT ![w] = "open"]
            /\ UNCHANGED <<outcome, errorMsg>>
  /\ UNCHANGED <<notMeta, kernel, build, mountPoint, options_, metadata, fd, vfs, issued, result,
                 shared>>

\* open(mountPoint.c_str(), O_DIRECTORY | O_RDONLY | O_CLOEXEC)
LinuxOpen(w) ==
  /\ platform = "linux" /\ pc[w] = "open"
  /\ Issue(w, "open")
  /\ LET obj == Lookup(CStr(mountPoint[w]), entryA)
         errno == IF obj = "file" THEN "ENOTDIR" ELSE obj
     IN  \/ /\ obj \in {"root", "dir"}
            /\ fd' = [fd EXCEPT ![w] = obj]
            /\ kernel' = [kernel EXCEPT ![w].opened = volume, ![w].opens = @ + 1]
            /\ pc' = [pc EXCEPT ![w] = "fstatvfs"]
            /\ UNCHANGED errorMsg
         \/ /\ obj \notin {"root", "dir"}
            /\ SetError(w, CreatePathErrorMessage("open", mountPoint[w], errno))
            /\ UNCHANGED <<fd, kernel>>
         \/ /\ obj \in {"root", "dir"}
            /\ SetError(w, CreatePathErrorMessage("open", mountPoint[w], "EACCES"))
            /\ UNCHANGED <<fd, kernel>>
  /\ UNCHANGED <<notMeta, build, mountPoint, options_, metadata, vfs, outcome, result,
                 shared>>

\* fstatvfs(fd, &vfs); on failure the exception unwinds through FdGuard.
LinuxFstatvfs(w) ==
  /\ platform = "linux" /\ pc[w] = "fstatvfs"
  /\ Issue(w, "fstatvfs")
  /\ \/ \E report \in inputs.reports :
          /\ vfs' = [vfs EXCEPT ![w] = report]
          /\ kernel' = [kernel EXCEPT ![w].capacity = kernel[w].opened]
          /\ pc' = [pc EXCEPT ![w] = "capacity"]
          /\ UNCHANGED <<fd, errorMsg>>
     \/ /\ SetError(w, CreatePathErrorMessage("fstatvfs", mountPoint[w], "EIO"))
        /\ CloseFd(w)
        /\ UNCHANGED vfs
  /\ UNCHANGED <<notMeta, build, mountPoint, options_, metadata, outcome, result,
                 shared>>

\* volume_metadata.cpp:75-95: the overflow checks and the three figures.
LinuxComputeCapacity(w) ==
  /\ platform = "linux" /\ pc[w] = "capacity"
  /\ LET cap == LinuxCapacity(vfs[w])
     IN  IF cap.ok
           THEN /\ metadata' = [metadata EXCEPT ![w].remote = FALSE,
                                                ![w].size = cap.size,
                                                ![w].available = cap.available,
                                                ![w].used = cap.used]
                /\ pc' = [pc EXCEPT ![w] =
                            IF enableGio THEN "gio"
                            ELSE IF options_[w].device # "" THEN "blkid" ELSE "exit"]
                /\ UNCHANGED <<fd, errorMsg, kernel>>
           ELSE /\ SetError(w, PlainError(cap.error))
                /\ CloseFd(w)
                /\ UNCHANGED metadata
  /\ UNCHANGED <<notMeta, build, mountPoint, options_, vfs, issued, outcome, result,
                 shared>>

AfterGio(w) == IF options_[w].device # "" THEN "blkid" ELSE "exit"

\* MountIterator::tryGetMonitor: the monitor, or nullptr when unavailable.
TryGetMonitor == {"monitor", "nullptr"}

\* gio::addMountMetadata up to tryGetMonitor: the g_unix_mounts walk and the
\* basic fields of the matching entry. An exception that leaves it is caught
\* by Execute, which writes the status.
LinuxGioMounts(w) ==
  /\ platform = "linux" /\ pc[w] = "gio"
  /\ \/ /\ IssueFailed(w, "g_unix_mounts_get")
        /\ metadata' = [metadata EXCEPT ![w].status = "GIO warning"]
        /\ pc' = [pc EXCEPT ![w] = AfterGio(w)]
        /\ UNCHANGED <<monitorUsers, kernel>>
     \/ /\ Issue(w, "g_unix_mounts_get")
        /\ pc' = [pc EXCEPT ![w] = AfterGio(w)]
        /\ UNCHANGED <<metadata, monitorUsers, kernel>>
     \/ \E fs_type \in {"", "ext4", "nfs"}, device_path \in {"/dev/x"},
           raw_monitor \in TryGetMonitor :
          /\ Issue(w, "g_unix_mounts_get")
          /\ metadata' = [metadata EXCEPT
                ![w].fstype = IF @ = "" THEN fs_type ELSE @,
                ![w].mountFrom = IF @ = "" THEN device_path ELSE @]
          /\ kernel' = [kernel EXCEPT ![w].fstype = IF fs_type # "" THEN volume ELSE @]
          /\ IF raw_monitor = "monitor"
               THEN /\ monitorUsers' = monitorUsers \cup {w}
                    /\ pc' = [pc EXCEPT ![w] = "gio_monitor"]
               ELSE /\ pc' = [pc EXCEPT ![w] = AfterGio(w)]
                    /\ UNCHANGED monitorUsers
  /\ UNCHANGED <<notMeta, build, mountPoint, options_, fd, vfs, outcome, errorMsg, result,
                 g_diskArbitrationMutex>>

\* The walk of the GMount list that also takes the filesystem type and the
\* remote flag from the scheme of the mount's URI, as the earlier
\* addMountMetadata of gio_utils.cpp:114-141 does.
SchemeGioMonitor(w) ==
  /\ platform = "linux" /\ pc[w] = "gio_monitor"
  /\ Issue(w, "g_volume_monitor_get_mounts")
  /\ \/ UNCHANGED metadata
     \/ \E label \in {"L"}, uri \in {"", "U"} :
          metadata' = [metadata EXCEPT
             ![w].label = label,
             ![w].uri = IF uri = "" THEN @ ELSE uri,
             ![w].remote = IF uri = "" THEN @ ELSE TRUE,
             ![w].fstype = IF uri = "" THEN @ ELSE "scheme"]
  /\ monitorUsers' = monitorUsers \ {w}
  /\ pc' = [pc EXCEPT ![w] = AfterGio(w)]
  /\ UNCHANGED <<notMeta, kernel, build, mountPoint, options_, fd, vfs, outcome, errorMsg, result,
                 g_diskArbitrationMutex>>

\* gio_volume_metadata.cpp:62-131: g_volume_monitor_get_mounts and the walk of
\* the GMount list, then the release of the list and of the monitor.
LinuxGioMonitor(w) ==
  /\ platform = "linux" /\ pc[w] = "gio_monitor"
  /\ Issue(w, "g_volume_monitor_get_mounts")
  /\ \/ UNCHANGED metadata
     \/ \E label \in {"L"}, uri \in {"", "U"} :
          metadata' = [metadata EXCEPT
             ![w].label = IF @ = "" THEN label ELSE @,
             ![w].mountName = IF @ = "" THEN "M" ELSE @,
             ![w].uri = IF @ = "" THEN uri ELSE @]
  /\ monitorUsers' = monitorUsers \ {w}
  /\ pc' = [pc EXCEPT ![w] = AfterGio(w)]
  /\ UNCHANGED <<notMeta, kernel, build, mountPoint, options_, fd, vfs, outcome, errorMsg, result,
                 g_diskArbitrationMutex>>

\* volume_metadata.cpp:113-160: the blkid lookups keyed by options_.device.
LinuxBlkid(w) ==
  /\ platform = "linux" /\ pc[w] = "blkid"
  /\ \/ /\ IssueFailed(w, "blkid_get_cache")
        /\ metadata' = [metadata EXCEPT ![w].status = "Blkid warning"]
     \/ \E uuid \in {"", "UUID"}, label \in {"", "LABEL"} :
          /\ Issue(w, "blkid_get_cache")
          /\ metadata' = [metadata EXCEPT
                ![w].uuid = IF uuid # "" THEN uuid ELSE @,
                ![w].label = IF label # "" THEN label ELSE @]
  /\ pc' = [pc EXCEPT ![w] = "exit"]
  /\ UNCHANGED <<notMeta, kernel, build, mountPoint, options_, fd, vfs, outcome, errorMsg, result,
                 shared>>

\* Execute returns normally: FdGuard closes the descriptor.
LinuxExit(w) ==
  /\ platform = "linux" /\ pc[w] = "exit"
  /\ CloseFd(w)
  /\ pc' = [pc EXCEPT ![w] = "onok"]
  /\ UNCHANGED <<notMeta, build, mountPoint, options_, metadata, vfs, issued, outcome,
                 errorMsg, result, shared>>

LinuxStep(w) ==
  \/ LinuxCtor(w) \/ LinuxOpen(w) \/ LinuxFstatvfs(w) \/ LinuxComputeCapacity(w)
  \/ LinuxGioMounts(w) \/ LinuxGioMonitor(w) \/ LinuxBlkid(w) \/ LinuxExit(w)

\* ------------------------------ macOS: GetVolumeMetadataWorker::Execute

\* darwin/volume_metadata.cpp:80-94: the mount point is validated and replaced
\* by its canonical form.
DarwinValidate(w) ==
  /\ platform = "darwin" /\ pc[w] = "ctor"
  /\ LET validated == ValidatePathForRead(mountPoint[w], entryA)
     IN  /\ IF mountPoint[w] # <<>> /\ ~HasNul(mountPoint[w])
              THEN Issue(w, "realpath") ELSE UNCHANGED issued
         /\ IF validated.path = <<>>
              THEN /\ SetError(w, validated.error)
                   /\ UNCHANGED mountPoint
              ELSE /\ mountPoint' = [mountPoint EXCEPT ![w] = validated.path]
                   /\ pc' = [pc EXCEPT ![w] = "open"]
                   /\ UNCHANGED errorMsg
  /\ UNCHANGED <<notMeta, kernel, build, options_, metadata, fd, vfs, outcome, result, shared>>

\* GetBasicVolumeInfo: open(mountPoint.c_str(), O_RDONLY | O_DIRECTORY | O_CLOEXEC)
DarwinOpen(w) ==
  /\ platform = "darwin" /\ pc[w] = "open"
  /\ Issue(w, "open")
  /\ LET obj == Lookup(CStr(mountPoint[w]), entryA)
         errno == IF obj = "file" THEN "ENOTDIR" ELSE obj
     IN  \/ /\ obj \in {"root", "dir"}
            /\ fd' = [fd EXCEPT ![w] = obj]
            /\ kernel' = [kernel EXCEPT ![w].opened = volume, ![w].opens = @ + 1]
            /\ pc' = [pc EXCEPT ![w] = "fstatvfs"]
            /\ UNCHANGED <<errorMsg, mountPoint>>
         \/ /\ obj \notin {"root", "dir"}
            /\ SetError(w, CreatePathErrorMessage("open", mountPoint[w], errno))
            /\ mountPoint' = [mountPoint EXCEPT ![w] = arg[w]]
            /\ UNCHANGED <<fd, kernel>>
         \/ /\ obj \in {"root", "dir"}
            /\ SetError(w, CreatePathErrorMessage("open", mountPoint[w], "EACCES"))
            /\ mountPoint' = [mountPoint EXCEPT ![w] = arg[w]]
            /\ UNCHANGED <<fd, kernel>>
  /\ UNCHANGED <<notMeta, build, options_, metadata, vfs, outcome, result, shared>>

\* GetBasicVolumeInfo: fstatvfs(fd, &vfs) and fstatfs(fd, &fs)
DarwinFstat(w) ==
  /\ platform = "darwin" /\ pc[w] = "fstatvfs"
  /\ \/ \E report \in inputs.reports, mnt \in FsSamples :
          /\ issued' = [issued EXCEPT ![w] = issued[w] \o <<"fstatvfs", "fstatfs">>]
          /\ vfs' = [vfs EXCEPT ![w] = report]
          /\ fs' = [fs EXCEPT ![w] = mnt]
          /\ kernel' = [kernel EXCEPT ![w].capacity = kernel[w].opened,
                                      ![w].fstype = kernel[w].opened]
          /\ pc' = [pc EXCEPT ![w] = "capacity"]
          /\ UNCHANGED <<fd, errorMsg, mountPoint>>
     \/ \E failed \in {"fstatvfs", "fstatfs"} :
          /\ issued' = [issued EXCEPT ![w] =
                          issued[w] \o (IF failed = "fstatvfs" THEN <<"fstatvfs">>
                                        ELSE <<"fstatvfs", "fstatfs">>)]
          /\ SetError(w, CreatePathErrorMessage(failed, mountPoint[w], "EIO"))
          /\ mountPoint' = [mountPoint EXCEPT ![w] = arg[w]]
          /\ CloseFd(w)
          /\ UNCHANGED <<vfs, fs>>
  /\ UNCHANGED <<notMeta, platform, enableGio, entryA, calls, inputs, arg, volume,
                 options_, metadata, outcome, result, shared>>

\* GetBasicVolumeInfo, volume_metadata.cpp:157-194: the overflow checks, the
\* three figures and the fstatfs strings; FdGuard closes on return.
DarwinComputeCapacity(w) ==
  /\ platform = "darwin" /\ pc[w] = "capacity"
  /\ LET cap == DarwinCapacity(vfs[w])
     IN  IF cap.ok
           THEN /\ metadata' = [metadata EXCEPT ![w].size = cap.size,
                                                ![w].available = cap.available,
                                                ![w].used = cap.used,
                                                ![w].fstype = fs[w].f_fstypename,
                                                ![w].mountFrom = fs[w].f_mntfromname,
                                                ![w].mountName = "M",
                                                ![w].status = "ready"]
                /\ pc' = [pc EXCEPT ![w] = "da_check"]
                /\ UNCHANGED <<errorMsg, mountPoint>>
           ELSE /\ SetError(w, PlainError(cap.error))
                /\ mountPoint' = [mountPoint EXCEPT ![w] = arg[w]]
                /\ UNCHANGED metadata
  /\ CloseFd(w)
  /\ UNCHANGED <<notMeta, build, options_, vfs, issued, outcome, result, shared>>

NetworkFsTypes == {"smbfs", "nfs", "afpfs", "webdav"}

\* GetDiskArbitrationInfoSafe, volume_metadata.cpp:201-207: network file
\* systems skip DiskArbitration.
DarwinNetworkCheck(w) ==
  /\ platform = "darwin" /\ pc[w] = "da_check"
  /\ IF metadata[w].fstype \in NetworkFsTypes
       THEN /\ metadata' = [metadata EXCEPT ![w].remote = TRUE, ![w].status = "healthy"]
            /\ pc' = [pc EXCEPT ![w] = "restore"]
       ELSE /\ pc' = [pc EXCEPT ![w] = "da_lock"]
            /\ UNCHANGED metadata
  /\ UNCHANGED <<notMeta, kernel, build, mountPoint, options_, fd, vfs, issued, outcome,
                 errorMsg, result, shared>>

LockWithoutWaiting(w) == g_diskArbitrationMutex' = w

\* std::mutex::lock and unlock
MutexLock(w) == g_diskArbitrationMutex = 0 /\ g_diskArbitrationMutex' = w
MutexUnlock(w) == g_diskArbitrationMutex' = 0

\* std::lock_guard<std::mutex> lock(g_diskArbitrationMutex)
DarwinDALock(w) ==
  /\ platform = "darwin" /\ pc[w] = "da_lock"
  /\ MutexLock(w)
  /\ pc' = [pc EXCEPT ![w] = "da_session"]
  /\ UNCHANGED <<notMeta, kernel, build, mountPoint, options_, metadata, fd, vfs, issued,
                 outcome, errorMsg, result, monitorUsers>>

\* DASessionCreate and scheduleOnQueue; an invalid session returns under
\* the guard.
DarwinDASession(w) ==
  /\ platform = "darwin" /\ pc[w] = "da_session"
  /\ \/ /\ IssueFailed(w, "DASessionCreate")
        /\ metadata' = [metadata EXCEPT ![w].status = "partial",
                                        ![w].error = "Failed to create DA session"]
        /\ MutexUnlock(w)
        /\ pc' = [pc EXCEPT ![w] = "restore"]
     \/ /\ Issue(w, "DASessionCreate")
        /\ pc' = [pc EXCEPT ![w] = "da_disk"]
        /\ UNCHANGED <<metadata, g_diskArbitrationMutex>>
  /\ UNCHANGED <<notMeta, kernel, build, mountPoint, options_, fd, vfs, outcome, errorMsg,
                 result, monitorUsers>>

\* DADiskCreateFromBSDName; an invalid disk returns, an exception is caught
\* at volume_metadata.cpp:275-279.
DarwinDADisk(w) ==
  /\ platform = "darwin" /\ pc[w] = "da_disk"
  /\ \/ /\ IssueFailed(w, "DADiskCreateFromBSDName")
        /\ metadata' = [metadata EXCEPT ![w].status = "partial",
                                        ![w].error = "Failed to create disk reference"]
        /\ MutexUnlock(w)
        /\ pc' = [pc EXCEPT ![w] = "restore"]
     \/ /\ IssueFailed(w, "DADiskCreateFromBSDName")
        /\ metadata' = [metadata EXCEPT ![w].status = "error",
                                        ![w].error = "exception"]
        /\ MutexUnlock(w)
        /\ pc' = [pc EXCEPT ![w] = "restore"]
     \/ /\ Issue(w, "DADiskCreateFromBSDName")
        /\ pc' = [pc EXCEPT ![w] = "da_description"]
        /\ UNCHANGED <<metadata, g_diskArbitrationMutex>>
  /\ UNCHANGED <<notMeta, kernel, build, mountPoint, options_, fd, vfs, outcome, errorMsg,
                 result, monitorUsers>>

\* DADiskCopyDescription, ProcessDiskDescription and ProcessNetworkVolume,
\* then the end of the guarded scope.
DarwinDADescription(w) ==
  /\ platform = "darwin" /\ pc[w] = "da_description"
  /\ \/ /\ IssueFailed(w, "DADiskCopyDescription")
        /\ metadata' = [metadata EXCEPT ![w].status = "partial",
                                        ![w].error = "Failed to get disk description"]
     \/ \E url \in {"", "U"} :
          /\ IF url = "" THEN IssueFailed(w, "DADiskCopyDescription")
                         ELSE Issue(w, "DADiskCopyDescription")
          /\ metadata' = [metadata EXCEPT
                ![w].label = "L",
                ![w].uuid = "UUID",
                ![w].uri = IF url = "" THEN @ ELSE url,
                ![w].status = IF url = "" THEN "partial" ELSE "healthy",
                ![w].error = IF url = "" THEN "Volume path not available in disk description"
                             ELSE @]
  /\ MutexUnlock(w)
  /\ pc' = [pc EXCEPT ![w] = "restore"]
  /\ UNCHANGED <<notMeta, kernel, build, mountPoint, options_, fd, vfs, outcome, errorMsg,
                 result, monitorUsers>>

\* volume_metadata.cpp:103: the caller's mount point is put back.
DarwinRestore(w) ==
  /\ platform = "darwin" /\ pc[w] = "restore"
  /\ mountPoint' = [mountPoint EXCEPT ![w] = arg[w]]
  /\ pc' = [pc EXCEPT ![w] = "onok"]
  /\ UNCHANGED <<notMeta, kernel, build, options_, metadata, fd, vfs, issued, outcome,
                 errorMsg, result, shared>>

DarwinStep(w) ==
  \/ DarwinValidate(w) \/ DarwinOpen(w) \/ DarwinFstat(w) \/ DarwinComputeCapacity(w)
  \/ DarwinNetworkCheck(w) \/ DarwinDALock(w) \/ DarwinDASession(w) \/ DarwinDADisk(w)
  \/ DarwinDADescription(w) \/ DarwinRestore(w)

\* ---------------------------- Windows: GetVolumeMetadataWorker::Execute

\* drive_status.h:22-35
DriveStatusToString(status) ==
  CASE status = "Healthy" -> "healthy"
    [] status = "Timeout" -> "timeout"
    [] status = "Inaccessible" -> "inaccessible"
    [] status = "Disconnected" -> "disconnected"
    [] OTHER -> "unknown"

\* drive_status.h:39-62, on the error of FindFirstFileEx
MapErrorToDriveStatus(error) ==
  CASE error = "ERROR_SUCCESS" -> "Healthy"
    [] error \in {"ERROR_FILE_NOT_FOUND", "ERROR_PATH_NOT_FOUND", "ERROR_ACCESS_DENIED"}
         -> "Inaccessible"
    [] error \in {"ERROR_BAD_NETPATH", "ERROR_NOT_CONNECTED"} -> "Disconnected"
    [] OTHER -> "Unknown"

\* The errors FindFirstFileEx may end with on a path of this file system.
FindFirstFileErrors(path, kindA) ==
  LET obj == Lookup(CStr(path), kindA)
  IN  IF obj \in {"root", "dir"}
        THEN {"ERROR_SUCCESS", "ERROR_ACCESS_DENIED", "ERROR_NOT_CONNECTED", "ERROR_GEN_FAILURE"}
        ELSE IF obj = "ENOENT" THEN {"ERROR_FILE_NOT_FOUND"} ELSE {"ERROR_PATH_NOT_FOUND"}

\* GetDiskFreeSpaceEx reports used by the whole-call model.
DiskSamples == { [totalBytes |-> 4, freeBytes |-> 1],
                 [totalBytes |-> MaxU64, freeBytes |-> MaxU64 - 1] }

\* volume_metadata.cpp:158-166 with CheckDrive (drive_status.h:145-172) and
\* CheckDriveInternal (64-101): the probe runs on the pool while the worker
\* waits up to the time limit; an unhealthy drive ends Execute.
WinCheckDrive(w) ==
  /\ platform = "windows" /\ pc[w] = "ctor"
  /\ \E status \in {"Healthy", "Timeout", "Inaccessible", "Disconnected", "Unknown"} :
       /\ \/ /\ ~IsPathSecure(mountPoint[w])
             /\ status \in {"Inaccessible", "Timeout"}
             /\ UNCHANGED issued
          \/ /\ IsPathSecure(mountPoint[w])
             /\ \/ status = "Timeout"
                \/ \E error \in FindFirstFileErrors(mountPoint[w], entryA) :
                     status = MapErrorToDriveStatus(error)
             /\ Issue(w, "FindFirstFileEx")
       /\ metadata' = [metadata EXCEPT ![w].status = DriveStatusToString(status)]
       /\ pc' = [pc EXCEPT ![w] = IF status = "Healthy" THEN "volinfo" ELSE "onok"]
  /\ UNCHANGED <<notMeta, kernel, build, mountPoint, options_, fd, vfs, outcome, errorMsg,
                 result, shared>>

\* volume_metadata.cpp:168-195: IsSystemVolume, VolumeInfo and GetVolumeGUID.
WinVolumeInfo(w) ==
  /\ platform = "windows" /\ pc[w] = "volinfo"
  /\ Issue(w, "GetVolumeInformation")
  /\ \/ \E uuid \in {"GUID", "serial"}, sys \in BOOLEAN :
          /\ metadata' = [metadata EXCEPT ![w].isSystemVolume = sys,
                                          ![w].label = "L",
                                          ![w].fstype = "NTFS",
                                          ![w].uuid = uuid]
          /\ kernel' = [kernel EXCEPT ![w].fstype = volume]
          /\ pc' = [pc EXCEPT ![w] = "diskspace"]
          /\ UNCHANGED errorMsg
     \/ /\ metadata' = [metadata EXCEPT ![w].isSystemVolume = FALSE]
        /\ pc' = [pc EXCEPT ![w] = "drivetype"]
        /\ UNCHANGED <<errorMsg, kernel>>
     \/ /\ SetError(w, PlainError("GetVolumeInformation"))
        /\ UNCHANGED <<metadata, kernel>>
  /\ UNCHANGED <<notMeta, build, mountPoint, options_, fd, vfs, outcome, result, shared>>

\* volume_metadata.cpp:197-207: DiskSpaceInfo and the three figures.
WinDiskSpace(w) ==
  /\ platform = "windows" /\ pc[w] = "diskspace"
  /\ Issue(w, "GetDiskFreeSpaceEx")
  /\ \/ \E report \in DiskSamples :
          LET cap == WindowsCapacity(report)
          IN  /\ metadata' = [metadata EXCEPT ![w].size = cap.size,
                                              ![w].available = cap.available,
                                              ![w].used = cap.used]
              /\ kernel' = [kernel EXCEPT ![w].capacity = volume]
              /\ pc' = [pc EXCEPT ![w] = "drivetype"]
              /\ UNCHANGED errorMsg
     \/ /\ pc' = [pc EXCEPT ![w] = "drivetype"]
        /\ UNCHANGED <<metadata, errorMsg, kernel>>
     \/ /\ SetError(w, PlainError("GetDiskFreeSpaceEx"))
        /\ UNCHANGED <<metadata, kernel>>
  /\ UNCHANGED <<notMeta, build, mountPoint, options_, fd, vfs, outcome, result, shared>>

\* volume_metadata.cpp:210-222: GetDriveType and WNetGetConnection.
WinDriveType(w) ==
  /\ platform = "windows" /\ pc[w] = "drivetype"
  /\ Issue(w, "GetDriveType")
  /\ \E remote \in BOOLEAN, conn \in {"", "//host/share"} :
       metadata' = [metadata EXCEPT
          ![w].remote = remote,
          ![w].mountFrom = IF remote /\ conn # "" THEN conn ELSE @]
  /\ pc' = [pc EXCEPT ![w] = "onok"]
  /\ UNCHANGED <<notMeta, kernel, build, mountPoint, options_, fd, vfs, outcome, errorMsg,
                 result, shared>>

WinStep(w) == WinCheckDrive(w) \/ WinVolumeInfo(w) \/ WinDiskSpace(w) \/ WinDriveType(w)


\* ------------------------------------------------- isHidden and setHidden
\* The attribute bits of an object: the hidden bit (UF_HIDDEN,
\* FILE_ATTRIBUTE_HIDDEN) and one other bit.
AttributeSets == {{}, {"OTHER"}, {"HIDDEN", "OTHER"}}

NoHiddenWorker ==
  [pc |-> "off", op |-> "", path_ |-> <<>>, hidden_ |-> FALSE,
   validated_path |-> <<>>, fd |-> 0, statbuf |-> {}, is_hidden_ |-> FALSE,
   opens |-> 0, closes |-> 0, readFrom |-> 0, written |-> 0,
   outcome |-> "pending", error |-> NoError]

HiddenOff ==
  /\ hw = NoHiddenWorker
  /\ attributes = [o \in 1..MaxVolumes |-> {}]

HiddenInit ==
  /\ hw = [NoHiddenWorker EXCEPT !.pc = "idle"]
  /\ attributes \in [1..MaxVolumes -> AttributeSets]

\* What the hidden workers leave alone in the worker group.
hiddenFrame == <<notHidden, attributes>>

\* GetHiddenAttribute(info) and SetHiddenAttribute(info): a worker is queued.
HiddenCall ==
  /\ hw.pc = "idle"
  /\ \E op \in {"get", "set"}, p \in inputs.mountPoints, value \in BOOLEAN :
       hw' = [hw EXCEPT !.pc = "validate", !.op = op, !.path_ = p,
                        !.hidden_ = IF op = "set" THEN value ELSE FALSE]
  /\ UNCHANGED hiddenFrame

HiddenSetError(msg) == hw' = [hw EXCEPT !.pc = "onerror", !.error = msg]

PathNotFound(p) == [operation |-> "", path |-> p, errno |-> "Path not found"]

\* darwin/hidden.cpp:28-41 and 131-136: isHidden validates with
\* allow_nonexistent, setHidden with ValidatePathForRead. isHidden looks for
\* "realpath" and "No such file or directory" in the text of the error, which
\* the error of the parent's resolution holds as well.
DarwinHiddenValidate ==
  /\ platform = "darwin" /\ hw.pc = "validate"
  /\ LET validated == IF hw.op = "get"
                        THEN ValidateAndCanonicalizePath(hw.path_, TRUE, entryA)
                        ELSE ValidatePathForRead(hw.path_, entryA)
     IN  IF validated.path = <<>>
           THEN IF hw.op = "get"
                   /\ validated.error.operation \in {"realpath", "realpath (parent)"}
                   /\ validated.error.errno = "ENOENT"
                  THEN HiddenSetError(PathNotFound(hw.path_))
                  ELSE HiddenSetError(validated.error)
           ELSE hw' = [hw EXCEPT !.pc = "open", !.validated_path = validated.path]
  /\ UNCHANGED hiddenFrame

\* hidden.cpp:52-65 and 147-160: open(validated_path.c_str(), O_RDONLY | O_CLOEXEC)
DarwinHiddenOpen ==
  /\ platform = "darwin" /\ hw.pc = "open"
  /\ LET obj == Lookup(CStr(hw.validated_path), entryA)
     IN  \/ /\ ~IsErrno(obj)
            /\ hw' = [hw EXCEPT !.pc = "fstat", !.fd = volume, !.opens = @ + 1]
         \/ /\ obj = "ENOENT"
            /\ HiddenSetError(PathNotFound(hw.validated_path))
         \/ /\ obj # "ENOENT"
            /\ HiddenSetError(CreatePathErrorMessage("open", hw.validated_path,
                                IF IsErrno(obj) THEN obj ELSE "EACCES"))
  /\ UNCHANGED hiddenFrame

\* hidden.cpp:67-79 and 162-176: fstat(fd, &statbuf); isHidden ends here and
\* its FdGuard closes the descriptor.
DarwinHiddenFstat ==
  /\ platform = "darwin" /\ hw.pc = "fstat"
  /\ \/ hw' = [hw EXCEPT !.pc = "onerror", !.closes = @ + 1,
                         !.error = CreatePathErrorMessage("fstat", hw.validated_path, "EIO")]
     \/ /\ hw.op = "get"
        /\ hw' = [hw EXCEPT !.pc = "onok", !.statbuf = attributes[hw.fd],
                            !.readFrom = hw.fd, !.closes = @ + 1,
                            !.is_hidden_ = "HIDDEN" \in attributes[hw.fd]]
     \/ /\ hw.op = "set"
        /\ hw' = [hw EXCEPT !.pc = "fchflags", !.statbuf = attributes[hw.fd],
                            !.readFrom = hw.fd]
  /\ UNCHANGED hiddenFrame

\* new_flags of hidden.cpp:171-176 and newAttrs of windows/hidden.cpp:29-30
NewFlags(flags, hidden) ==
  IF hidden THEN flags \cup {"HIDDEN"} ELSE flags \ {"HIDDEN"}

\* hidden.cpp:178-204: fchflags(fd, new_flags); on failure fstatfs(fd, &fs)
\* and SetError. The FdGuard closes the descriptor either way.
DarwinHiddenFchflags ==
  /\ platform = "darwin" /\ hw.pc = "fchflags"
  /\ \/ /\ attributes' = [attributes EXCEPT ![hw.fd] = NewFlags(hw.statbuf, hw.hidden_)]
        /\ hw' = [hw EXCEPT !.pc = "onok", !.written = hw.fd, !.closes = @ + 1]
     \/ /\ hw' = [hw EXCEPT !.pc = "onerror", !.closes = @ + 1,
                            !.error = CreatePathErrorMessage("fchflags", hw.validated_path, "EPERM")]
        /\ UNCHANGED attributes
  /\ UNCHANGED notHidden

\* windows/hidden.cpp:57-61 and 128-131: SecurityUtils::IsPathSecure
WinHiddenSecure ==
  /\ platform = "windows" /\ hw.pc = "validate"
  /\ IF IsPathSecure(hw.path_)
       THEN hw' = [hw EXCEPT !.pc = "getattr"]
       ELSE HiddenSetError(PlainError("Security validation failed: invalid path"))
  /\ UNCHANGED hiddenFrame

\* windows/hidden.cpp:69-89 (isHidden) and 19-24 (FileAttributeHandler):
\* GetFileAttributesW on the path.
WinGetFileAttributes ==
  /\ platform = "windows" /\ hw.pc = "getattr"
  /\ LET obj == Lookup(CStr(hw.path_), entryA)
     IN  \/ /\ ~IsErrno(obj)
            /\ hw' = [hw EXCEPT !.pc = IF hw.op = "get" THEN "onok" ELSE "setattr",
                                !.statbuf = attributes[volume], !.readFrom = volume,
                                !.is_hidden_ = IF hw.op = "get"
                                               THEN "HIDDEN" \in attributes[volume] ELSE @]
         \/ /\ IsErrno(obj) /\ hw.op = "get"
            /\ hw' = [hw EXCEPT !.pc = "onok", !.is_hidden_ = FALSE]
         \/ /\ IsErrno(obj) \/ hw.op = "set"
            /\ HiddenSetError(PlainError("GetFileAttributes"))
         \/ /\ ~IsErrno(obj) /\ hw.op = "get"
            /\ HiddenSetError(PlainError("GetFileAttributes"))
  /\ UNCHANGED hiddenFrame

\* FileAttributeHandler::setHidden, windows/hidden.cpp:28-36:
\* SetFileAttributesW(path.c_str(), newAttrs)
WinSetFileAttributes ==
  /\ platform = "windows" /\ hw.pc = "setattr"
  /\ \/ /\ attributes' = [attributes EXCEPT ![volume] = NewFlags(hw.statbuf, hw.hidden_)]
        /\ hw' = [hw EXCEPT !.pc = "onok", !.written = volume, !.statbuf = attributes'[volume]]
     \/ /\ HiddenSetError(PlainError("SetFileAttributes"))
        /\ UNCHANGED attributes
  /\ UNCHANGED notHidden

\* OnOK and OnError of the hidden workers
HiddenOnOK ==
  /\ hw.pc = "onok"
  /\ hw' = [hw EXCEPT !.pc = "done", !.outcome = "resolved"]
  /\ UNCHANGED hiddenFrame

HiddenOnError ==
  /\ hw.pc = "onerror"
  /\ hw' = [hw EXCEPT !.pc = "done", !.outcome = "rejected"]
  /\ UNCHANGED hiddenFrame

HiddenStep ==
  \/ HiddenCall \/ DarwinHiddenValidate \/ DarwinHiddenOpen \/ DarwinHiddenFstat
  \/ DarwinHiddenFchflags \/ WinHiddenSecure \/ WinGetFileAttributes
  \/ WinSetFileAttributes \/ HiddenOnOK \/ HiddenOnError

\* ------------------------------------------------------------------ FdGuard
MaxGuards == 2
MaxFds == 2
GuardIds == 1..MaxGuards
Fds == 1..MaxFds

\* fd_ = -1
NoFd == 0 - 1

\* No FdGuard object is exercised in this run.
GuardOff ==
  /\ guards = <<>>
  /\ descriptors = <<>>

GuardInit ==
  /\ guards = [g \in GuardIds |-> [alive |-> FALSE, fd_ |-> NoFd]]
  /\ descriptors = [d \in Fds |-> "free"]

\* close(fd): an open descriptor is closed; any other is a close of a
\* descriptor the process does not hold.
Close(table, d) ==
  [table EXCEPT ![d] = IF table[d] = "open" THEN "closed" ELSE "EBADF"]

\* fd_guard.h:31-33 and 58-60: if (fd_ >= 0) close(fd_)
CloseIfHeld(table, g) ==
  IF guards[g].fd_ >= 0 THEN Close(table, guards[g].fd_) ELSE table

\* open() followed by FdGuard guard(fd), fd_guard.h:28; the descriptor is a
\* new one, or the guard is given -1.
GuardConstruct(g) ==
  /\ ~guards[g].alive
  /\ \/ \E d \in DOMAIN descriptors :
          /\ descriptors[d] = "free"
          /\ descriptors' = [descriptors EXCEPT ![d] = "open"]
          /\ guards' = [guards EXCEPT ![g] = [alive |-> TRUE, fd_ |-> d]]
     \/ /\ guards' = [guards EXCEPT ![g] = [alive |-> TRUE, fd_ |-> NoFd]]
        /\ UNCHANGED descriptors
  /\ UNCHANGED notGuard

CopyConstructed(g, other) ==
  [guards EXCEPT ![g] = [alive |-> TRUE, fd_ |-> guards[other].fd_]]

\* FdGuard(FdGuard &&other), fd_guard.h:54
MoveConstructed(g, other) ==
  [guards EXCEPT ![g] = [alive |-> TRUE, fd_ |-> guards[other].fd_],
                 ![other].fd_ = NoFd]

GuardMoveConstruct(g, other) ==
  /\ ~guards[g].alive /\ guards[other].alive
  /\ guards' = MoveConstructed(g, other)
  /\ UNCHANGED <<notGuard, descriptors>>

\* operator=(FdGuard &&other), fd_guard.h:56-65
GuardMoveAssign(g, other) ==
  /\ guards[g].alive /\ guards[other].alive
  /\ IF g # other
       THEN /\ descriptors' = CloseIfHeld(descriptors, g)
            /\ guards' = [guards EXCEPT ![g].fd_ = guards[other].fd_,
                                        ![other].fd_ = NoFd]
       ELSE UNCHANGED <<guards, descriptors>>
  /\ UNCHANGED notGuard

\* release(), fd_guard.h:40-44: the caller now owns the descriptor.
GuardRelease(g) ==
  /\ guards[g].alive
  /\ guards' = [guards EXCEPT ![g].fd_ = NoFd]
  /\ descriptors' = IF guards[g].fd_ >= 0
                      THEN [descriptors EXCEPT ![guards[g].fd_] = "released"]
                      ELSE descriptors
  /\ UNCHANGED notGuard

\* ~FdGuard(), fd_guard.h:30-34
GuardDestroy(g) ==
  /\ guards[g].alive
  /\ descriptors' = CloseIfHeld(descriptors, g)
  /\ guards' = [guards EXCEPT ![g].alive = FALSE]
  /\ UNCHANGED notGuard

GuardStep ==
  \E g \in DOMAIN guards :
    \/ GuardConstruct(g) \/ GuardRelease(g) \/ GuardDestroy(g)
    \/ \E other \in DOMAIN guards : GuardMoveConstruct(g, other) \/ GuardMoveAssign(g, other)

\* --------------------------------------- the buffers of the C providers
\* The longest list g_volume_monitor_get_mounts returns.
MaxList == 2

\* What an element of the GMount list is: not a mount, a mount without a
\* root, a mount whose root has no path, a mount at another path, the mount
\* at the path asked for.
MountKinds == {"invalid", "noroot", "nopath", "other", "match"}

RECURSIVE ListsUpTo(_)
ListsUpTo(n) ==
  IF n = 0 THEN {<<>>}
  ELSE LET shorter == ListsUpTo(n - 1)
       IN  shorter \cup {Append(l, k) : l \in {s \in shorter : Len(s) = n - 1},
                                         k \in MountKinds}

\* The pieces of code that take buffers and references from a C provider.
Routines == {"GioMountPointsWorker", "addMountMetadata", "blkid"}

NoRoutine == [pc |-> "off", routine |-> "", list |-> <<>>, i |-> 0, live |-> {},
              released |-> {}, twice |-> {}, copied |-> {}, thrown |-> FALSE]

ResOff == rs = NoRoutine

ResInit ==
  \E r \in Routines, l \in ListsUpTo(MaxList) :
    /\ r = "blkid" => l = <<>>
    /\ rs = [NoRoutine EXCEPT !.pc = "start", !.routine = r, !.list = l]

\* The provider hands out the references S: they are owed a release.
Acquire(r, S) == [r EXCEPT !.live = @ \cup S]

\* The matching deallocation function is called on each of S.
Release(r, S) ==
  [r EXCEPT !.live = @ \ S, !.released = @ \cup S, !.twice = @ \cup (S \ r.live)]

\* gio_worker.cpp:23-27: g_volume_monitor_get, a reference the caller owns.
GioWorkerGetMonitor ==
  /\ rs.routine = "GioMountPointsWorker" /\ rs.pc = "start"
  /\ \/ rs' = [rs EXCEPT !.pc = "done", !.thrown = TRUE]
     \/ rs' = [Acquire(rs, {<<"monitor", 0>>}) EXCEPT !.pc = "mounts"]
  /\ UNCHANGED notRes

\* gio_worker.cpp:30-34: g_volume_monitor_get_mounts; no list, return.
GioWorkerGetMounts ==
  /\ rs.routine = "GioMountPointsWorker" /\ rs.pc = "mounts"
  /\ IF rs.list = <<>>
       THEN rs' = [rs EXCEPT !.pc = "done"]
       ELSE rs' = [Acquire(rs, {<<"mounts", 0>>}) EXCEPT !.pc = "loop", !.i = 1]
  /\ UNCHANGED notRes

\* gio_worker.cpp:37-63: one element of the list. path and fs_type are held
\* by GCharPtr, which frees them when the iteration is left in any way; root
\* is released by the g_object_unref at the end of the body.
GioWorkerMount ==
  /\ rs.routine = "GioMountPointsWorker" /\ rs.pc = "loop" /\ rs.i <= Len(rs.list)
  /\ LET kind == rs.list[rs.i]
         root == <<"root", rs.i>>
         strings == {<<"path", rs.i>>, <<"fs_type", rs.i>>}
         next == [pc |-> "loop", i |-> rs.i + 1]
     IN  \/ /\ kind \in {"invalid", "noroot"}
            /\ rs' = [rs EXCEPT !.i = next.i]
         \/ /\ kind = "nopath"
            /\ rs' = [Release(Release(Acquire(rs, {root, <<"fs_type", rs.i>>}),
                                      {<<"fs_type", rs.i>>}), {root})
                        EXCEPT !.i = next.i]
         \/ /\ kind \in {"other", "match"}
            /\ \/ rs' = [Release(Release(Acquire(rs, {root} \cup strings), strings), {root})
                           EXCEPT !.i = next.i, !.copied = @ \cup strings]
               \/ rs' = [Release(Acquire(rs, {root} \cup strings), strings)
                           EXCEPT !.pc = "done", !.thrown = TRUE]
  /\ UNCHANGED notRes

\* gio_worker.cpp:65-66: g_list_free_full(mounts, g_object_unref)
GioWorkerFreeList ==
  /\ rs.routine = "GioMountPointsWorker" /\ rs.pc = "loop" /\ rs.i > Len(rs.list)
  /\ rs' = [Release(rs, {<<"mounts", 0>>}) EXCEPT !.pc = "done"]
  /\ UNCHANGED notRes

\* gio_utils.cpp:42-54: g_volume_monitor_get, held by monitor_guard, and
\* g_volume_monitor_get_mounts.
AddMountGetMounts ==
  /\ rs.routine = "addMountMetadata" /\ rs.pc = "start"
  /\ \/ rs' = [rs EXCEPT !.pc = "done"]
     \/ IF rs.list = <<>>
          THEN rs' = [Release(Acquire(rs, {<<"monitor", 0>>}), {<<"monitor", 0>>})
                        EXCEPT !.pc = "done"]
          ELSE rs' = [Acquire(rs, {<<"monitor", 0>>, <<"mounts", 0>>})
                        EXCEPT !.pc = "loop", !.i = 1]
  /\ UNCHANGED notRes

\* gio_utils.cpp:59-179: one element of the list. At the matching mount the
\* volume name, the mount name and the URI are copied and freed, root is
\* released and the loop is left; at any other mount root and path are
\* released.
AddMountElement ==
  /\ rs.routine = "addMountMetadata" /\ rs.pc = "loop" /\ rs.i <= Len(rs.list)
  /\ LET kind == rs.list[rs.i]
         root == <<"root", rs.i>>
         path == <<"path", rs.i>>
         details == {<<"name", rs.i>>, <<"mount_name", rs.i>>, <<"uri", rs.i>>}
     IN  \/ /\ kind \in {"invalid", "noroot"}
            /\ rs' = [rs EXCEPT !.i = @ + 1]
         \/ /\ kind = "nopath"
            /\ rs' = [Release(Acquire(rs, {root}), {root}) EXCEPT !.i = @ + 1]
         \/ /\ kind = "other"
            /\ rs' = [Release(Acquire(rs, {root, path}), {root, path}) EXCEPT !.i = @ + 1]
         \/ /\ kind = "match"
            /\ rs' = [Release(Acquire(rs, {root, path} \cup details), details \cup {root})
                        EXCEPT !.i = Len(rs.list) + 1,
                               !.copied = @ \cup {<<"name", rs.i>>, <<"uri", rs.i>>}]
  /\ UNCHANGED notRes

\* gio_utils.cpp:190: g_list_free_full, then monitor_guard's destructor.
AddMountFreeList ==
  /\ rs.routine = "addMountMetadata" /\ rs.pc = "loop" /\ rs.i > Len(rs.list)
  /\ rs' = [Release(rs, {<<"mounts", 0>>, <<"monitor", 0>>}) EXCEPT !.pc = "done"]
  /\ UNCHANGED notRes

\* volume_metadata.cpp:117 and blkid_cache.cpp:14-27: the cache, or the
\* exception of the constructor.
BlkidOpen ==
  /\ rs.routine = "blkid" /\ rs.pc = "start"
  /\ \/ rs' = [rs EXCEPT !.pc = "done", !.thrown = TRUE]
     \/ rs' = [Acquire(rs, {<<"cache", 0>>}) EXCEPT !.pc = "UUID"]
  /\ UNCHANGED notRes

\* volume_metadata.cpp:136-154: blkid_get_tag_value, the copy into the
\* record, free(). An exception of the copy leaves the scope: the cache is
\* released by ~BlkidCache, the string is not.
BlkidTag ==
  /\ rs.routine = "blkid" /\ rs.pc \in {"UUID", "LABEL"}
  /\ LET tag == <<rs.pc, 0>>
         after == IF rs.pc = "UUID" THEN "LABEL" ELSE "close"
     IN  \/ rs' = [rs EXCEPT !.pc = after]
         \/ rs' = [Release(Acquire(rs, {tag}), {tag})
                     EXCEPT !.pc = after, !.copied = @ \cup {tag}]
         \/ rs' = [Release(Acquire(rs, {tag}), {<<"cache", 0>>})
                     EXCEPT !.pc = "done", !.thrown = TRUE]
  /\ UNCHANGED notRes

\* blkid_cache.cpp:30-48: ~BlkidCache
BlkidClose ==
  /\ rs.routine = "blkid" /\ rs.pc = "close"
  /\ rs' = [Release(rs, {<<"cache", 0>>}) EXCEPT !.pc = "done"]
  /\ UNCHANGED notRes

\* ------------------------------------------- the timeoutMs option in use
\* common/volume_metadata.h:9, common/volume_mount_points.h:9
DefaultTimeoutMs == 5000

\* the values a caller passes, one below and one above the default
Timeouts == {DefaultTimeoutMs \div 50, 2 * DefaultTimeoutMs - 1000}

\* a blocking call without wait_for has no ceiling
Forever == 2 * DefaultTimeoutMs

\* the instants of the clock at which something can change
Instants == {0} \cup Timeouts \cup {DefaultTimeoutMs, Forever}

NextInstant(t) == CHOOSE u \in Instants : u > t /\ \A x \in Instants : x > t => u <= x

\* the entry points that start a probe or a blocking operation
TimedApis ==
  {"getVolumeMetadata/windows", "getVolumeMetadata/posix",
   "getVolumeMountPoints/windows", "getVolumeMountPoints/darwin"}

NoTimedCall ==
  [pc |-> "off", api |-> "", has |-> FALSE, given |-> 0, hangs |-> FALSE,
   timeoutMs |-> 0, ceiling |-> 0, elapsed |-> 0, probe |-> "none", result |-> ""]

TimeoutOff == tm = NoTimedCall

TimeoutInit == \E h \in BOOLEAN : tm = [NoTimedCall EXCEPT !.pc = "idle", !.hangs = h]

\* VolumeMetadataOptions::FromObject, MountPointOptions::FromObject: the
\* member keeps its initializer unless the object has the key
FromObjectTimeoutMs(has, given) == IF has THEN given ELSE DefaultTimeoutMs

\* The ceiling of the wait each entry point starts.
\*   windows/volume_metadata.cpp:157   CheckDriveStatus(mountPoint): the
\*     default argument of drive_status.h:234-237, options_ is not read
\*   windows/volume_mount_points.cpp:76   CheckDriveStatus(paths, timeoutMs_)
\*   darwin/volume_mount_points.cpp:92    wait_for(timeoutMs_)
\*   linux|darwin/volume_metadata.cpp     open, fstatvfs, blkid, GIO and
\*     DiskArbitration are called on the worker thread, under no wait
WaitCeiling(api, timeoutMs) ==
  CASE api = "getVolumeMetadata/windows"    -> DefaultTimeoutMs
    [] api = "getVolumeMountPoints/windows" -> timeoutMs
    [] api = "getVolumeMountPoints/darwin"  -> timeoutMs
    [] api = "getVolumeMetadata/posix"      -> Forever

\* GetVolumeMetadata / GetVolumeMountPoints: parse the options
TimedCall(api, has, given) ==
  /\ tm.pc = "idle"
  /\ tm' = [tm EXCEPT !.pc = "called", !.api = api, !.has = has,
                      !.given = IF has THEN given ELSE 0,
                      !.timeoutMs = FromObjectTimeoutMs(has, given)]
  /\ UNCHANGED notTimeout

\* Execute: the probe or operation starts and the caller's thread waits
TimedStart ==
  /\ tm.pc = "called"
  /\ tm' = [tm EXCEPT !.pc = "waiting", !.probe = "running", !.elapsed = 0,
                      !.ceiling = WaitCeiling(tm.api, tm.timeoutMs)]
  /\ UNCHANGED notTimeout

\* time passes while the call waits: up to the ceiling inside wait_for,
\* without a ceiling in the destructor of a std::async future
TimePasses ==
  /\ tm.pc \in {"waiting", "joining"}
  /\ tm.probe = "running"
  /\ tm.elapsed < (IF tm.pc = "waiting" THEN tm.ceiling ELSE Forever)
  /\ tm' = [tm EXCEPT !.elapsed = NextInstant(tm.elapsed)]
  /\ UNCHANGED notTimeout

\* the probe or operation returns, unless it is stuck
TimedProbeReturns ==
  /\ tm.pc \in {"waiting", "joining"}
  /\ tm.probe = "running" /\ ~tm.hangs
  /\ tm' = [tm EXCEPT !.probe = "done"]
  /\ UNCHANGED notTimeout

\* drive_status.h:153-162, darwin/volume_mount_points.cpp:91-103: the wait
\* ends, ready or timed out; a blocking call ends only when it is done.  On
\* macOS the futures of std::async are destroyed at the end of the batch
\* (darwin/volume_mount_points.cpp:66, :127) and join their threads.
TimedWaitEnds ==
  /\ tm.pc = "waiting"
  /\ \/ tm.probe = "done"
     \/ tm.ceiling # Forever /\ tm.elapsed >= tm.ceiling
  /\ LET res == IF tm.probe = "done" THEN "ready" ELSE "timeout"
     IN  tm' = [tm EXCEPT !.result = res,
                          !.pc = IF tm.api = "getVolumeMountPoints/darwin" /\ res = "timeout"
                                   THEN "joining" ELSE "returned"]
  /\ UNCHANGED notTimeout

\* ~future of a std::async future: returns when the thread has ended
TimedJoin ==
  /\ tm.pc = "joining" /\ tm.probe = "done"
  /\ tm' = [tm EXCEPT !.pc = "returned"]
  /\ UNCHANGED notTimeout

\* ------------------------------------------ the Windows thread pool
MaxWorkers == 2
MaxTasks == 2

Workers == 1..MaxWorkers
Tasks == 1..MaxTasks
NoTask == 0

\* thread_pool.h:15-20, :72-82: WorkQueue (tasks, workAvailable, shutdown)
\* and ThreadPool (threads with their ThreadData).  ran, pushed and dropped
\* record what happened to each task.
NoPool ==
  [tasks |-> <<>>, event |-> FALSE, shutdown |-> FALSE,
   sub |-> [pc |-> "off", task |-> NoTask],
   wk |-> [w \in Workers |-> [pc |-> "off", task |-> NoTask]],
   running |-> [w \in Workers |-> FALSE],
   data |-> "none", closes |-> [w \in Workers |-> 0],
   main |-> "off", round |-> 0,
   ran |-> [t \in Tasks |-> 0], pushed |-> {}, dropped |-> {}, freedRead |-> FALSE]

PoolOff == tp = NoPool

\* thread_pool.h:111-134: the constructor; the event starts non-signalled,
\* every ThreadData starts running and every thread starts at the loop test
PoolInit ==
  tp = [NoPool EXCEPT !.sub = [pc |-> "idle", task |-> NoTask],
                      !.wk = [w \in Workers |-> [pc |-> "loop", task |-> NoTask]],
                      !.running = [w \in Workers |-> TRUE],
                      !.data = "live", !.main = "idle"]

\* thread_pool.h:141-145 Submit: the test of IsShutdown
PoolSubmit(t) ==
  /\ tp.sub.pc = "idle"
  /\ tp.ran[t] = 0 /\ t \notin tp.pushed /\ \A u \in Tasks : u < t => u \in tp.pushed
  /\ tp' = [tp EXCEPT !.sub = IF tp.shutdown THEN [pc |-> "gone", task |-> NoTask]
                                             ELSE [pc |-> "push", task |-> t]]
  /\ UNCHANGED notPool

\* thread_pool.h:35-38 Push: the critical section
QueuePush ==
  /\ tp.sub.pc = "push"
  /\ tp' = [tp EXCEPT !.tasks = Append(@, tp.sub.task),
                      !.pushed = IF tp.shutdown THEN @ ELSE @ \cup {tp.sub.task},
                      !.sub.pc = "signal"]
  /\ UNCHANGED notPool

\* thread_pool.h:39 Push: SetEvent(workAvailable)
QueueSetEvent ==
  /\ tp.sub.pc = "signal"
  /\ tp' = [tp EXCEPT !.event = TRUE, !.sub = [pc |-> "idle", task |-> NoTask]]
  /\ UNCHANGED notPool

\* thread_pool.h:95 WorkerThread: while (threadData->running &&
\* !queue->IsShutdown()).  threadData is a raw pointer into threads; once
\* threads.clear() destroyed it the read is of freed memory, and yields
\* either value or faults.
WorkerLoop(w) ==
  /\ tp.wk[w].pc = "loop"
  /\ \E r \in (IF tp.data = "live" THEN {tp.running[w]} ELSE BOOLEAN),
        faults \in (IF tp.data = "live" THEN {FALSE} ELSE BOOLEAN) :
       tp' = [tp EXCEPT !.freedRead = @ \/ tp.data # "live",
                        !.wk[w] = [pc |-> IF faults THEN "fault"
                                          ELSE IF r /\ ~tp.shutdown THEN "pop"
                                          ELSE "exited",
                                   task |-> NoTask]]
  /\ UNCHANGED notPool

\* thread_pool.h:42-44 Pop: if (shutdown) return false
PopEnter(w) ==
  /\ tp.wk[w].pc = "pop"
  /\ tp' = [tp EXCEPT !.wk[w].pc = IF tp.shutdown THEN "loop" ELSE "wait"]
  /\ UNCHANGED notPool

\* thread_pool.h:46 Pop: WaitForSingleObject returns WAIT_OBJECT_0 and
\* resets the auto-reset event
PopWait(w) ==
  /\ tp.wk[w].pc = "wait" /\ tp.event
  /\ tp' = [tp EXCEPT !.event = FALSE, !.wk[w].pc = "dequeue"]
  /\ UNCHANGED notPool

\* thread_pool.h:46-48 Pop: the wait of 1000 ms expires on an event that
\* stayed non-signalled
PopTimeout(w) ==
  /\ tp.wk[w].pc = "wait" /\ ~tp.event
  /\ tp' = [tp EXCEPT !.wk[w].pc = "loop"]
  /\ UNCHANGED notPool

\* thread_pool.h:50-58 Pop: the critical section
PopDequeue(w) ==
  /\ tp.wk[w].pc = "dequeue"
  /\ tp' = IF tp.tasks # <<>> /\ ~tp.shutdown
             THEN [tp EXCEPT !.wk[w] = [pc |-> "return", task |-> Head(tp.tasks)],
                             !.tasks = Tail(@),
                             !.event = @ \/ Tail(tp.tasks) # <<>>]
             ELSE [tp EXCEPT !.wk[w].pc = "return"]
  /\ UNCHANGED notPool

\* thread_pool.h:60 Pop: return !shutdown && task != nullptr; at :97 the
\* task of a Pop that returned false is destroyed without being called
PopReturn(w) ==
  /\ tp.wk[w].pc = "return"
  /\ tp' = IF ~tp.shutdown /\ tp.wk[w].task # NoTask
             THEN [tp EXCEPT !.wk[w].pc = "run"]
             ELSE [tp EXCEPT !.wk[w] = [pc |-> "loop", task |-> NoTask],
                             !.dropped = IF tp.wk[w].task # NoTask
                                           THEN @ \cup {tp.wk[w].task} ELSE @]
  /\ UNCHANGED notPool

\* thread_pool.h:98-103 WorkerThread: task()
WorkerRun(w) ==
  /\ tp.wk[w].pc = "run"
  /\ tp' = [tp EXCEPT !.ran[tp.wk[w].task] = @ + 1,
                      !.wk[w] = [pc |-> "loop", task |-> NoTask]]
  /\ UNCHANGED notPool

\* thread_pool.h:147-151, :63-64: ThreadPool::Shutdown, called by the
\* owner and again by ~ThreadPool (:136-139): queue->Shutdown() sets the flag
ShutdownQueue ==
  /\ tp.main = "idle" /\ tp.round < 2
  /\ tp' = [tp EXCEPT !.shutdown = TRUE, !.main = "signal"]
  /\ UNCHANGED notPool

\* thread_pool.h:65 WorkQueue::Shutdown: SetEvent(workAvailable)
ShutdownSignal ==
  /\ tp.main = "signal"
  /\ tp' = [tp EXCEPT !.event = TRUE, !.main = "stop"]
  /\ UNCHANGED notPool

\* thread_pool.h:153-158: running = false for each ThreadData in threads
ShutdownStop ==
  /\ tp.main = "stop"
  /\ tp' = [tp EXCEPT !.running = IF tp.data = "live" THEN [w \in Workers |-> FALSE] ELSE @,
                      !.main = "wait"]
  /\ UNCHANGED notPool

\* thread_pool.h:160-178: WaitForMultipleObjects(all, 5000) returns when
\* every thread has exited, or times out; with no handle left there is no wait
ShutdownWait ==
  /\ tp.main = "wait"
  /\ \/ tp.data # "live"
     \/ \A w \in Workers : tp.wk[w].pc = "exited"
     \/ \E w \in Workers : tp.wk[w].pc # "exited"
  /\ tp' = [tp EXCEPT !.main = "close"]
  /\ UNCHANGED notPool

\* thread_pool.h:180-186: CloseHandle for each ThreadData in threads
ShutdownClose ==
  /\ tp.main = "close"
  /\ tp' = [tp EXCEPT !.closes = IF tp.data = "live" THEN [w \in Workers |-> @[w] + 1] ELSE @,
                      !.main = "clear"]
  /\ UNCHANGED notPool

\* thread_pool.h:188: threads.clear() destroys every ThreadData
ShutdownClear ==
  /\ tp.main = "clear"
  /\ tp' = [tp EXCEPT !.data = "freed", !.main = "idle", !.round = @ + 1]
  /\ UNCHANGED notPool

\* ------------------------------------------------- the path validators
\* The spellings handed to a validator: one byte longer than a mount point.
Spellings == SeqsUpTo(MaxPathLen + 1)

NoValidation == [pc |-> "off", validator |-> "", kindA |-> "none", p |-> <<>>, q |-> <<>>,
                 out_p |-> Validated(<<>>), out_q |-> Validated(<<>>),
                 again |-> Validated(<<>>)]

PathOff == pv = NoValidation

\* A spelling and the kind of the entry "a".
PathInit ==
  \E q \in Spellings, kindA \in EntryKinds :
    pv = [NoValidation EXCEPT !.pc = "idle", !.q = q, !.kindA = kindA]

\* Whether p and q name the same existing object.
SameObject(p, q, kindA) ==
  /\ ~IsErrno(Lookup(p, kindA))
  /\ Lookup(q, kindA) = Lookup(p, kindA)

\* What the Windows workers do with a path (windows/hidden.cpp:57-65,
\* drive_status.h:68-72): IsPathSecure decides, and the path that passes is
\* used as it was given.
WinValidatePath(path) ==
  IF IsPathSecure(path) THEN Validated(path)
  ELSE Refused("", path, "Security validation failed: invalid path")

\* ValidatePathForRead on p, on q, and on what it returned for q.
PosixValidate(p) ==
  /\ pv.pc = "idle" /\ SameObject(p, pv.q, pv.kindA)
  /\ LET out == ValidatePathForRead(pv.q, pv.kindA)
     IN  pv' = [pv EXCEPT !.pc = "done", !.validator = "posix", !.p = p,
                          !.out_p = ValidatePathForRead(p, pv.kindA),
                          !.out_q = out,
                          !.again = ValidatePathForRead(out.path, pv.kindA)]
  /\ UNCHANGED notPath

\* ValidatePathForWrite and ValidatePathForRead on the spelling, whether it
\* resolves or not, and ValidatePathForWrite on what the first returned.
ValidateNonexistent ==
  /\ pv.pc = "idle"
  /\ LET out == ValidateAndCanonicalizePath(pv.q, TRUE, pv.kindA)
     IN  pv' = [pv EXCEPT !.pc = "checked", !.validator = "posix", !.p = pv.q,
                          !.out_p = ValidatePathForRead(pv.q, pv.kindA),
                          !.out_q = out,
                          !.again = ValidateAndCanonicalizePath(out.path, TRUE, pv.kindA)]
  /\ UNCHANGED notPath

\* The same with the Windows validator.
WinValidate(p) ==
  /\ pv.pc = "idle" /\ SameObject(p, pv.q, pv.kindA)
  /\ LET out == WinValidatePath(pv.q)
     IN  pv' = [pv EXCEPT !.pc = "done", !.validator = "windows", !.p = p,
                          !.out_p = WinValidatePath(p),
                          !.out_q = out,
                          !.again = WinValidatePath(out.path)]
  /\ UNCHANGED notPath

\* ------------------------------------------------ getVolumeMountPoints
MaxMounts == 5
MaxPool == 2
Mounts == 1..MaxMounts

\* darwin/volume_mount_points.cpp:52
maxConcurrentChecks == 4

\* What a mount's probe does: returns true, returns false, throws, never
\* returns; a Windows drive letter may also have no root directory.
ProbeKinds(plat) ==
  {"accessible", "denied", "throws", "hangs"} \cup
    (IF plat = "windows" THEN {"noroot"} ELSE {})

\* The mount tables of a build: up to MaxMounts entries, at most one of which
\* hangs and at most one of which is other than accessible or hanging.
MountTables(plat) ==
  { t \in UNION { [1..n -> ProbeKinds(plat)] : n \in 1..MaxMounts } :
      /\ Cardinality({i \in DOMAIN t : t[i] = "hangs"}) <= 1
      /\ Cardinality({i \in DOMAIN t : t[i] \notin {"accessible", "hangs"}}) <= 1 }

ProbeOff ==
  /\ mp_platform = "none"
  /\ mp_pc = "off"
  /\ mntbuf = <<>>
  /\ poolSize = 0
  /\ paths = <<>>
  /\ futures = <<>>
  /\ probe = [m \in Mounts |-> "none"]
  /\ tasks = <<>>
  /\ expired = FALSE
  /\ statuses = <<>>
  /\ mountPoints_ = <<>>
  /\ mp_i = 1
  /\ mp_outcome = "pending"
  /\ mp_result = <<>>

ProbeInit ==
  /\ mp_platform \in {"darwin", "windows"}
  /\ mp_pc = "start"
  /\ mntbuf \in MountTables(mp_platform)
  /\ poolSize \in (IF mp_platform = "windows" THEN 1..MaxPool ELSE {0})
  /\ paths = <<>>
  /\ futures = <<>>
  /\ probe = [m \in Mounts |-> "none"]
  /\ tasks = <<>>
  /\ expired = FALSE
  /\ statuses = <<>>
  /\ mountPoints_ = <<>>
  /\ mp_i = 1
  /\ mp_outcome = "pending"
  /\ mp_result = <<>>

PushFront(list, mp) == <<mp>> \o list

\* mountPoints_.push_back(std::move(mp))
PushBack(list, mp) == Append(list, mp)

Min(a, b) == IF a < b THEN a ELSE b

RECURSIVE Range(_, _)
Range(a, b) == IF a > b THEN <<>> ELSE <<a>> \o Range(a + 1, b)

\* The thread of a probe returns (or throws): its future becomes ready.
ProbeFinish(m) ==
  /\ probe[m] = "running"
  /\ mntbuf[m] # "hangs"
  /\ probe' = [probe EXCEPT ![m] = "done"]
  /\ UNCHANGED <<notProbe, mp_platform, mp_pc, mntbuf, poolSize, paths,
                 futures, tasks, expired, statuses, mountPoints_, mp_i, mp_outcome,
                 mp_result>>

\* ---- macOS
\* volume_mount_points.cpp:39-49: getmntinfo_r_np; a count <= 0 is thrown and
\* becomes SetError.
DarwinGetMntInfo ==
  /\ mp_platform = "darwin" /\ mp_pc = "start"
  /\ \/ mp_pc' = "launch"
     \/ mp_pc' = "onerror"
  /\ UNCHANGED <<notProbe, mp_platform, mntbuf, poolSize, paths, futures,
                 probe, tasks, expired, statuses, mountPoints_, mp_i, mp_outcome,
                 mp_result>>

\* volume_mount_points.cpp:56-85: one std::async thread per mount of the batch.
DarwinLaunchBatch ==
  /\ mp_platform = "darwin" /\ mp_pc = "launch"
  /\ LET last == Min(Len(mntbuf), mp_i + maxConcurrentChecks - 1)
     IN  /\ futures' = Range(mp_i, last)
         /\ probe' = [m \in Mounts |-> IF m \in mp_i..last THEN "running" ELSE probe[m]]
  /\ mp_pc' = "collect"
  /\ UNCHANGED <<notProbe, mp_platform, mntbuf, poolSize, paths, tasks,
                 expired, statuses, mountPoints_, mp_i, mp_outcome, mp_result>>

\* The status of volume_mount_points.cpp:94-133 for a future that is ready.
DarwinReadyStatus(kind) ==
  CASE kind = "accessible" -> "healthy"
    [] kind = "denied" -> "inaccessible"
    [] OTHER -> "error"

\* volume_mount_points.cpp:88-136, one iteration: wait_for(timeoutMs_) on the
\* k-th future of the batch, then push_back.
DarwinCollect ==
  /\ mp_platform = "darwin" /\ mp_pc = "collect"
  /\ LET k == Len(mountPoints_) - (mp_i - 1) + 1
         m == futures[k]
     IN  /\ \/ /\ probe[m] = "done"
               /\ mountPoints_' = PushBack(mountPoints_,
                     [mountPoint |-> m, status |-> DarwinReadyStatus(mntbuf[m])])
            \/ /\ probe[m] # "done"
               /\ mountPoints_' = PushBack(mountPoints_,
                     [mountPoint |-> m, status |-> "disconnected"])
         /\ mp_pc' = IF k = Len(futures) THEN "join" ELSE "collect"
  /\ UNCHANGED <<notProbe, mp_platform, mntbuf, poolSize, paths, futures,
                 probe, tasks, expired, statuses, mp_i, mp_outcome, mp_result>>

\* The end of the batch's scope if the futures let go of their threads.
DarwinDetach ==
  /\ mp_platform = "darwin" /\ mp_pc = "join"
  /\ futures' = <<>>
  /\ mp_i' = mp_i + maxConcurrentChecks
  /\ mp_pc' = IF mp_i + maxConcurrentChecks > Len(mntbuf) THEN "onok" ELSE "launch"
  /\ UNCHANGED <<notProbe, mp_platform, mntbuf, poolSize, paths, probe,
                 tasks, expired, statuses, mountPoints_, mp_outcome, mp_result>>

\* The end of the batch's scope: ~future of a std::async future waits for its
\* thread, so the vector's destruction returns when every probe has.
DarwinJoin ==
  /\ mp_platform = "darwin" /\ mp_pc = "join"
  /\ \A k \in 1..Len(futures) : probe[futures[k]] = "done"
  /\ futures' = <<>>
  /\ mp_i' = mp_i + maxConcurrentChecks
  /\ mp_pc' = IF mp_i + maxConcurrentChecks > Len(mntbuf) THEN "onok" ELSE "launch"
  /\ UNCHANGED <<notProbe, mp_platform, mntbuf, poolSize, paths, probe,
                 tasks, expired, statuses, mountPoints_, mp_outcome, mp_result>>


CapInit ==
  /\ cap_pc = "start"
  /\ cap_platform = "none"
  /\ cap_in = NoVfs
  /\ cap_out = CapError("")

\* The capacity step of LinuxMetadataWorker::Execute on one fstatvfs report.
CapLinux ==
  /\ cap_pc = "start"
  /\ \E report \in StatVfs :
       /\ cap_in' = report
       /\ cap_out' = LinuxCapacity(report)
  /\ cap_platform' = "linux"
  /\ cap_pc' = "done"
  /\ UNCHANGED notCap

\* The capacity step of GetBasicVolumeInfo (macOS) on one fstatvfs report.
CapDarwin ==
  /\ cap_pc = "start"
  /\ \E report \in StatVfs :
       /\ cap_in' = report
       /\ cap_out' = DarwinCapacity(report)
  /\ cap_platform' = "darwin"
  /\ cap_pc' = "done"
  /\ UNCHANGED notCap

\* The capacity figures of GetVolumeMetadataWorker::Execute (Windows) on one
\* GetDiskFreeSpaceEx report.
CapWindows ==
  /\ cap_pc = "start"
  /\ \E report \in DiskSpace :
       /\ cap_in' = report
       /\ cap_out' = WindowsCapacity(report)
  /\ cap_platform' = "windows"
  /\ cap_pc' = "done"
  /\ UNCHANGED notCap

CapNext == CapLinux \/ CapDarwin \/ CapWindows

CapSpecInit == CapInit /\ MetaOff /\ ProbeOff /\ HiddenOff /\ GuardOff /\ PathOff /\ ResOff /\ TimeoutOff /\ PoolOff

SpecCap == CapSpecInit /\ [][CapNext]_vars

\* ------------------------------------------------ one getVolumeMetadata call
MetaNext ==
  \E w \in CallIds : Call(w) \/ LinuxStep(w) \/ DarwinStep(w) \/ WinStep(w)
                     \/ OnOK(w) \/ OnError(w)

MetaSpecInit == CapInit /\ MetaInit /\ ProbeOff /\ HiddenOff /\ GuardOff /\ PathOff /\ ResOff /\ TimeoutOff /\ PoolOff

SpecMeta == MetaSpecInit /\ [][MetaNext]_vars

\* ---- Windows
\* The mounts of the table whose drive has a root directory, in table order.
RECURSIVE WithRoot(_, _)
WithRoot(table, m) ==
  IF m > Len(table) THEN <<>>
  ELSE (IF table[m] = "noroot" THEN <<>> ELSE <<m>>) \o WithRoot(table, m + 1)

\* windows/volume_mount_points.cpp:38-76 and drive_status.h:178-185: the
\* drives are listed, those without a root directory are skipped, and a check
\* of each of the others is submitted to the pool.
WinEnumerate ==
  /\ mp_platform = "windows" /\ mp_pc = "start"
  /\ \/ /\ mp_pc' = "onerror"
        /\ UNCHANGED <<paths, futures, tasks, probe>>
     \/ /\ paths' = WithRoot(mntbuf, 1)
        /\ futures' = paths'
        /\ tasks' = paths'
        /\ probe' = [m \in Mounts |->
                       IF \E k \in 1..Len(paths') : paths'[k] = m THEN "queued"
                       ELSE probe[m]]
        /\ mp_pc' = IF paths' = <<>> THEN "build" ELSE "collect"
  /\ UNCHANGED <<notProbe, mp_platform, mntbuf, poolSize, expired, statuses,
                 mountPoints_, mp_i, mp_outcome, mp_result>>

\* thread_pool.h:84-108 with WorkQueue::Pop: a free pool thread takes the
\* oldest task and runs it.
WorkerThread ==
  /\ tasks # <<>>
  /\ Cardinality({m \in Mounts : probe[m] = "running"}) < poolSize
  /\ probe' = [probe EXCEPT ![Head(tasks)] = "running"]
  /\ tasks' = Tail(tasks)
  /\ UNCHANGED <<notProbe, mp_platform, mp_pc, mntbuf, poolSize, paths,
                 futures, expired, statuses, mountPoints_, mp_i, mp_outcome, mp_result>>

\* What CheckDriveInternal returns for a drive, or "Unknown" for the
\* exception future.get() rethrows.
WinReadyStatus(kind) ==
  CASE kind = "accessible" -> "Healthy"
    [] kind = "denied" -> "Inaccessible"
    [] OTHER -> "Unknown"

\* drive_status.h:191-221, one iteration: the time left until the shared
\* deadline, wait_for on the i-th future, push_back.
WinCollect ==
  /\ mp_platform = "windows" /\ mp_pc = "collect"
  /\ LET i == Len(statuses) + 1
         m == futures[i]
     IN  /\ \/ /\ expired
               /\ statuses' = Append(statuses, "Timeout")
               /\ UNCHANGED expired
            \/ /\ ~expired /\ probe[m] = "done"
               /\ statuses' = Append(statuses, WinReadyStatus(mntbuf[m]))
               /\ UNCHANGED expired
            \/ /\ ~expired /\ probe[m] # "done"
               /\ statuses' = Append(statuses, "Timeout")
               /\ expired' = TRUE
         /\ mp_pc' = IF i = Len(futures) THEN "build" ELSE "collect"
  /\ UNCHANGED <<notProbe, mp_platform, mntbuf, poolSize, paths, futures,
                 probe, tasks, mountPoints_, mp_i, mp_outcome, mp_result>>

RECURSIVE BuildMountPoints(_, _, _)
BuildMountPoints(drives, sts, i) ==
  IF i > Len(drives) THEN <<>>
  ELSE <<[mountPoint |-> drives[i], status |-> DriveStatusToString(sts[i])]>>
         \o BuildMountPoints(drives, sts, i + 1)

\* windows/volume_mount_points.cpp:78-102: a MountPoint per checked drive.
WinBuild ==
  /\ mp_platform = "windows" /\ mp_pc = "build"
  /\ mountPoints_' = BuildMountPoints(paths, statuses, 1)
  /\ futures' = <<>>
  /\ mp_pc' = "onok"
  /\ UNCHANGED <<notProbe, mp_platform, mntbuf, poolSize, paths, probe,
                 tasks, expired, statuses, mp_i, mp_outcome, mp_result>>

\* GetVolumeMountPointsWorker::OnOK: the array, entry by entry.
MountPointsOnOK ==
  /\ mp_pc = "onok"
  /\ mp_result' = mountPoints_
  /\ mp_outcome' = "resolved"
  /\ mp_pc' = "done"
  /\ UNCHANGED <<notProbe, mp_platform, mntbuf, poolSize, paths, futures,
                 probe, tasks, expired, statuses, mountPoints_, mp_i>>

\* AsyncWorker::OnError after SetError
MountPointsOnError ==
  /\ mp_pc = "onerror"
  /\ mp_outcome' = "rejected"
  /\ mp_pc' = "done"
  /\ UNCHANGED <<notProbe, mp_platform, mntbuf, poolSize, paths, futures,
                 probe, tasks, expired, statuses, mountPoints_, mp_i, mp_result>>

ProbeNext ==
  \/ DarwinGetMntInfo \/ DarwinLaunchBatch \/ DarwinCollect \/ DarwinJoin
  \/ WinEnumerate \/ WorkerThread \/ WinCollect \/ WinBuild
  \/ MountPointsOnOK \/ MountPointsOnError
  \/ \E m \in Mounts : ProbeFinish(m)

ProbeSpecInit == CapInit /\ MetaOff /\ ProbeInit /\ HiddenOff /\ GuardOff /\ PathOff /\ ResOff /\ TimeoutOff /\ PoolOff

SpecProbe == ProbeSpecInit /\ [][ProbeNext]_vars

\* --------------------------------------- concurrent getVolumeMetadata calls
\* An ordinary fstatvfs report.
OrdinaryVfs == [f_frsize |-> 1, f_bsize |-> 1, f_blocks |-> 2, f_bfree |-> 1, f_bavail |-> 1]

\* Every call of this run is on the worker pool at once, for the root
\* directory of a macOS build.
DAInit ==
  /\ platform = "darwin"
  /\ enableGio = FALSE
  /\ entryA = "dir"
  /\ calls = CallIds
  /\ inputs = [mountPoints |-> {<<"/">>, <<>>}, devices |-> {""},
               reports |-> {OrdinaryVfs}]
  /\ MetaIdle

DANext == \E w \in CallIds : Call(w) \/ DarwinStep(w) \/ OnOK(w) \/ OnError(w)

DASpecInit == CapInit /\ DAInit /\ ProbeOff /\ HiddenOff /\ GuardOff /\ PathOff /\ ResOff /\ TimeoutOff /\ PoolOff

SpecDA == DASpecInit /\ [][DANext]_vars

\* The steps a worker thread takes by itself, and the returns of its
\* DiskArbitration calls, which are in the hands of the provider.
OwnSteps(w) ==
  \/ Call(w) \/ DarwinValidate(w) \/ DarwinOpen(w) \/ DarwinFstat(w)
  \/ DarwinComputeCapacity(w) \/ DarwinNetworkCheck(w) \/ DarwinDALock(w)
  \/ DarwinRestore(w) \/ OnOK(w) \/ OnError(w)

ProviderReturns(w) == DarwinDASession(w) \/ DarwinDADisk(w) \/ DarwinDADescription(w)

\* The call that may stay inside the provider for ever.
StuckCall == MaxCalls

\* libuv runs every queued worker on a thread of its own and the scheduler
\* lets every thread that can take a step take it; the provider answers
\* every call but the stuck one.
DAFairness ==
  /\ \A w \in CallIds : WF_vars(OwnSteps(w))
  /\ \A w \in CallIds \ {StuckCall} : WF_vars(ProviderReturns(w))

SpecDAStuck == DASpecInit /\ [][DANext]_vars /\ DAFairness

\* The same on a Linux build with GIO enabled.
GioInit ==
  /\ platform = "linux"
  /\ enableGio = TRUE
  /\ entryA = "dir"
  /\ calls = CallIds
  /\ inputs = [mountPoints |-> {<<"/">>, <<>>}, devices |-> {"", "dev"},
               reports |-> {OrdinaryVfs}]
  /\ MetaIdle

GioNext == \E w \in CallIds : Call(w) \/ LinuxStep(w) \/ OnOK(w) \/ OnError(w)

GioSpecInit == CapInit /\ GioInit /\ ProbeOff /\ HiddenOff /\ GuardOff /\ PathOff /\ ResOff /\ TimeoutOff /\ PoolOff

SpecGio == GioSpecInit /\ [][GioNext]_vars

\* ------------------------------- a call racing with a change of the mount
\* The environment: the object at the path is unmounted or replaced by
\* another one (linux/volume_metadata.cpp:40-42). A descriptor that is open
\* keeps referring to the object it was opened on.
ReplaceVolume ==
  /\ volume < MaxVolumes
  /\ volume' = volume + 1
  /\ UNCHANGED <<notMeta, platform, enableGio, entryA, calls, inputs, pc, arg, mountPoint,
                 options_, metadata, fd, vfs, fs, issued, outcome, errorMsg, result,
                 shared, kernel>>

\* One call for the root directory, on any build.
RaceInit ==
  /\ platform \in {"linux", "darwin", "windows"}
  /\ enableGio \in (IF platform = "linux" THEN BOOLEAN ELSE {FALSE})
  /\ entryA = "dir"
  /\ calls = {1}
  /\ inputs = [mountPoints |-> {<<"/">>}, devices |-> {"", "dev"},
               reports |-> {OrdinaryVfs}]
  /\ MetaIdle

RaceNext ==
  \/ \E w \in CallIds : Call(w) \/ LinuxStep(w) \/ DarwinStep(w) \/ WinStep(w)
                        \/ OnOK(w) \/ OnError(w)
  \/ ReplaceVolume

RaceSpecInit == CapInit /\ RaceInit /\ ProbeOff /\ HiddenOff /\ GuardOff /\ PathOff /\ ResOff /\ TimeoutOff /\ PoolOff

SpecRace == RaceSpecInit /\ [][RaceNext]_vars

\* ------------------------------------------- one isHidden / setHidden call
\* The file system and the build a hidden worker runs on; no metadata call.
HiddenEnv ==
  /\ platform \in {"darwin", "windows"}
  /\ enableGio = FALSE
  /\ entryA \in EntryKinds
  /\ calls = {}
  /\ inputs = [mountPoints |-> Paths, devices |-> {}, reports |-> {}]
  /\ MetaIdle

HiddenNext == HiddenStep \/ ReplaceVolume

HiddenSpecInit == CapInit /\ HiddenEnv /\ ProbeOff /\ HiddenInit /\ GuardOff /\ PathOff /\ ResOff /\ TimeoutOff /\ PoolOff

SpecHidden == HiddenSpecInit /\ [][HiddenNext]_vars

\* Another actor (a process calling chflags or SetFileAttributes) changes
\* the other attribute bit of an object at any moment, also between the
\* worker's fstat and its fchflags (darwin/hidden.cpp:163-178) and between
\* GetFileAttributesW and SetFileAttributesW (windows/hidden.cpp:19-32).
OtherActor(o) ==
  /\ attributes' = [attributes EXCEPT ![o] = IF "OTHER" \in @ THEN @ \ {"OTHER"}
                                                              ELSE @ \cup {"OTHER"}]
  /\ UNCHANGED <<notHidden, hw>>

HiddenRaceNext == HiddenStep \/ ReplaceVolume \/ \E o \in 1..MaxVolumes : OtherActor(o)

SpecHiddenRace == HiddenSpecInit /\ [][HiddenRaceNext]_vars

\* --------------------------------------------- one use of a validator
PathNext ==
  \/ \E p \in Paths : PosixValidate(p) \/ WinValidate(p)
  \/ ValidateNonexistent

PathSpecInit == CapInit /\ MetaOff /\ ProbeOff /\ HiddenOff /\ GuardOff /\ PathInit /\ ResOff /\ TimeoutOff /\ PoolOff

SpecPath == PathSpecInit /\ [][PathNext]_vars

\* ------------------------------------- one run of an enrichment routine
ResNext ==
  \/ GioWorkerGetMonitor \/ GioWorkerGetMounts \/ GioWorkerMount \/ GioWorkerFreeList
  \/ AddMountGetMounts \/ AddMountElement \/ AddMountFreeList
  \/ BlkidOpen \/ BlkidTag \/ BlkidClose

ResSpecInit == CapInit /\ MetaOff /\ ProbeOff /\ HiddenOff /\ GuardOff /\ PathOff /\ ResInit /\ TimeoutOff /\ PoolOff

SpecRes == ResSpecInit /\ [][ResNext]_vars

\* one call of an entry point that takes timeoutMs
TimeoutNext ==
  \/ \E api \in TimedApis, has \in BOOLEAN, given \in Timeouts : TimedCall(api, has, given)
  \/ TimedStart
  \/ TimePasses
  \/ TimedProbeReturns
  \/ TimedWaitEnds
  \/ TimedJoin

TimeoutSpecInit == CapInit /\ MetaOff /\ ProbeOff /\ HiddenOff /\ GuardOff /\ PathOff /\ ResOff /\ TimeoutInit /\ PoolOff

SpecTimeout == TimeoutSpecInit /\ [][TimeoutNext]_vars

\* one thread pool: a submitter, the worker threads, the owner shutting down
PoolNext ==
  \/ \E t \in Tasks : PoolSubmit(t)
  \/ QueuePush
  \/ QueueSetEvent
  \/ \E w \in Workers :
       \/ WorkerLoop(w)
       \/ PopEnter(w)
       \/ PopWait(w)
       \/ PopTimeout(w)
       \/ PopDequeue(w)
       \/ PopReturn(w)
       \/ WorkerRun(w)
  \/ ShutdownQueue
  \/ ShutdownSignal
  \/ ShutdownStop
  \/ ShutdownWait
  \/ ShutdownClose
  \/ ShutdownClear

PoolSpecInit == CapInit /\ MetaOff /\ ProbeOff /\ HiddenOff /\ GuardOff /\ PathOff /\ ResOff /\ TimeoutOff /\ PoolInit

SpecPool == PoolSpecInit /\ [][PoolNext]_vars

\* ------------------------------------------ the descriptors of one run
\* A run is one getVolumeMetadata call on a POSIX build, or one hidden
\* worker, or a sequence of operations on FdGuard objects.
FdCallEnv ==
  /\ platform \in {"linux", "darwin"}
  /\ enableGio \in (IF platform = "linux" THEN BOOLEAN ELSE {FALSE})
  /\ entryA \in EntryKinds
  /\ calls = {1}
  /\ inputs = [mountPoints |-> Paths, devices |-> {"", "dev"}, reports |-> VfsSamples]
  /\ MetaIdle

FdSpecInit ==
  /\ PoolOff /\ TimeoutOff /\ ResOff /\ CapInit /\ ProbeOff /\ PathOff
  /\ \/ FdCallEnv /\ HiddenOff /\ GuardOff
     \/ HiddenEnv /\ hw = [NoHiddenWorker EXCEPT !.pc = "idle"]
                  /\ attributes = [o \in 1..MaxVolumes |-> {}] /\ GuardOff
     \/ MetaOff /\ HiddenOff /\ GuardInit

FdNext ==
  \/ \E w \in CallIds : Call(w) \/ LinuxStep(w) \/ DarwinStep(w) \/ OnOK(w) \/ OnError(w)
  \/ HiddenStep
  \/ GuardStep

SpecFd == FdSpecInit /\ [][FdNext]_vars

\* ================================================================ properties

\* The capacity step has produced the three figures of a record.
CapReturned == cap_pc = "done" /\ cap_platform \in {"linux", "darwin"} /\ cap_out.ok

\* C1: in every record the capacity code returns, for every block size and
\* total, free and available block counts, used + available <= size (the sum
\* taken as the caller's double arithmetic takes it).
C1_UsedPlusAvailableWithinSize ==
  CapReturned => ToDouble(cap_out.used + cap_out.available) <= cap_out.size

\* A record came back for a report whose available blocks exceed its free ones.
C1_Witness ==
  /\ CapReturned
  /\ cap_in.f_bavail > cap_in.f_bfree
  /\ cap_in.f_bfree <= cap_in.f_blocks

\* C2: whenever one of the products block size x total, block size x available,
\* block size x (total - free) exceeds the 64-bit maximum the capacity code
\* fails with an overflow error; every figure it returns is the exact product
\* (as a double), never a wrapped one; and WouldOverflow(a, b) is true exactly
\* when a x b exceeds the maximum.
C2_NoWrappedFigure ==
  (cap_pc = "done" /\ cap_platform \in {"linux", "darwin"}) =>
    LET blockSize == BlockSizeOf(cap_in)
        total == blockSize * cap_in.f_blocks
        available == blockSize * cap_in.f_bavail
        used == blockSize * (cap_in.f_blocks - cap_in.f_bfree)
    IN  /\ (total > MaxU64 \/ available > MaxU64 \/ used > MaxU64) => ~cap_out.ok
        /\ cap_out.ok => /\ cap_out.size = ToDouble(total)
                         /\ cap_out.available = ToDouble(available)
                         /\ used >= 0
                         /\ cap_out.used = ToDouble(used)
        /\ WouldOverflow(blockSize, cap_in.f_blocks) <=> (total > MaxU64)
        /\ WouldOverflow(blockSize, cap_in.f_bavail) <=> (available > MaxU64)

\* A record came back for a report with more free blocks than blocks.
C2_Witness == CapReturned /\ cap_in.f_bfree > cap_in.f_blocks

\* The mounts whose probe never returns.
StuckMounts == {m \in DOMAIN mntbuf : mntbuf[m] = "hangs"}

\* The mounts the enumeration probes.
ProbedMounts == {m \in DOMAIN mntbuf : mntbuf[m] # "noroot"}

\* C3: when one entry's probe never completes the enumeration still returns
\* all N entries: the worker never waits for the stuck probe without a time
\* limit (it is abandoned), and the resolved list has every probed mount.
C3_StuckProbeAbandoned ==
  /\ ~(/\ mp_pc = "join"
       /\ \E k \in 1..Len(futures) :
            futures[k] \in StuckMounts /\ probe[futures[k]] = "running")
  /\ mp_outcome = "resolved" => Len(mp_result) = Cardinality(ProbedMounts)

\* An enumeration with a stuck probe has collected that probe's entry.
C3_Witness ==
  \E i \in 1..Len(mountPoints_) :
    /\ mountPoints_[i].mountPoint \in StuckMounts
    /\ mountPoints_[i].status \in {"disconnected", "timeout"}

\* C4: when one probe never completes, every entry whose own probe has
\* completed by the time it is collected is reported with the status that
\* probe computed, whatever its position and the pool's size.
C4_OthersReflectTrueStatus ==
  [][(StuckMounts # {} /\ mp_pc = "collect") =>
       /\ (mp_platform = "windows" /\ Len(statuses') = Len(statuses) + 1
             /\ probe[futures[Len(statuses) + 1]] = "done")
            => statuses'[Len(statuses')] = WinReadyStatus(mntbuf[futures[Len(statuses) + 1]])
       /\ (mp_platform = "darwin" /\ Len(mountPoints_') = Len(mountPoints_) + 1
             /\ probe[mountPoints_'[Len(mountPoints_')].mountPoint] = "done")
            => mountPoints_'[Len(mountPoints_')].status =
                 DarwinReadyStatus(mntbuf[mountPoints_'[Len(mountPoints_')].mountPoint])
    ]_vars

\* A completed probe's entry was collected after the stuck probe's entry.
C4_Witness ==
  /\ mp_pc = "done" /\ mp_outcome = "resolved"
  /\ \E i, j \in 1..Len(mp_result) :
       /\ i < j
       /\ mp_result[i].mountPoint \in StuckMounts
       /\ probe[mp_result[j].mountPoint] = "done"

\* C5: the list has exactly one entry per probed mount and lists the mounts
\* in mount-table order, whatever the order in which the probes complete.
C5_TableOrder ==
  /\ \A i, j \in 1..Len(mountPoints_) :
       i < j => mountPoints_[i].mountPoint < mountPoints_[j].mountPoint
  /\ mp_outcome = "resolved" =>
       /\ {mp_result[i].mountPoint : i \in 1..Len(mp_result)} = ProbedMounts
       /\ \A i, j \in 1..Len(mp_result) :
            i < j => mp_result[i].mountPoint < mp_result[j].mountPoint

\* A resolved list in which a later mount's probe completed and an earlier
\* one's timed out.
C5_Witness ==
  /\ mp_outcome = "resolved"
  /\ \E i, j \in 1..Len(mp_result) :
       /\ i < j
       /\ mp_result[i].status \in {"disconnected", "timeout"}
       /\ mp_result[j].status = "healthy"

\* The provider calls of the call w that failed.
FailedCalls(w) ==
  {issued[w][i] : i \in {k \in 1..(Len(issued[w]) - 1) : issued[w][k + 1] = "failed"}}

EnrichmentCalls ==
  {"g_unix_mounts_get", "blkid_get_cache", "DASessionCreate",
   "DADiskCreateFromBSDName", "DADiskCopyDescription"}

Issued(w, call) == \E i \in 1..Len(issued[w]) : issued[w][i] = call

\* C6: when an enrichment source fails, the call still resolves, the record
\* has status "partial", the capacity figures of the primary query and a
\* non-empty error detail, and the sources after the failed one are still
\* attempted.
C6_EnrichmentFailureIsPartial ==
  \A w \in calls :
    (pc[w] = "done" /\ FailedCalls(w) \cap EnrichmentCalls # {}) =>
      /\ outcome[w] = "resolved"
      /\ result[w].status = "partial"
      /\ metadata[w].error # ""
      /\ result[w].size = metadata[w].size /\ metadata[w].size # Uninit
      /\ result[w].used = metadata[w].used /\ metadata[w].used # Uninit
      /\ result[w].available = metadata[w].available /\ metadata[w].available # Uninit
      /\ ("g_unix_mounts_get" \in FailedCalls(w) /\ options_[w].device # "")
           => Issued(w, "blkid_get_cache")

\* A call has ended after one of its enrichment sources failed.
C6_Witness ==
  \E w \in calls : pc[w] = "done" /\ FailedCalls(w) \cap EnrichmentCalls # {}

\* The mount point of the call w does not validate: it is empty, holds a NUL
\* byte, or names nothing realpath can resolve.
DoesNotValidate(w) ==
  \/ arg[w] = <<>>
  \/ HasNul(arg[w])
  \/ IsErrno(Lookup(arg[w], entryA))

PathQueries ==
  {"open", "fstatvfs", "fstatfs", "FindFirstFileEx", "GetVolumeInformation",
   "GetDiskFreeSpaceEx"}

\* C7: a call whose mount point does not validate never resolves, and fails
\* before any open or capacity query is issued on the path.
C7_InvalidPathFailsFirst ==
  \A w \in calls :
    (pc[w] # "idle" /\ DoesNotValidate(w)) =>
      /\ outcome[w] # "resolved"
      /\ \A i \in 1..Len(issued[w]) : issued[w][i] \notin PathQueries

\* A call with a mount point that does not validate has ended.
C7_Witness == \E w \in calls : pc[w] = "done" /\ DoesNotValidate(w)

PrimaryQueries == {"fstatvfs", "GetDiskFreeSpaceEx"}

\* C8: a call whose path validates and that resolves has attempted the primary
\* capacity query with success, and the record's capacity figures are the ones
\* that query gave.
C8_CapacityFromPrimaryQuery ==
  \A w \in calls :
    (outcome[w] = "resolved" /\ ~DoesNotValidate(w)) =>
      /\ \E q \in PrimaryQueries : Issued(w, q) /\ q \notin FailedCalls(w)
      /\ metadata[w].size # Uninit /\ result[w].size = metadata[w].size
      /\ metadata[w].used # Uninit /\ result[w].used = metadata[w].used
      /\ metadata[w].available # Uninit /\ result[w].available = metadata[w].available

\* A call with a valid mount point has resolved.
C8_Witness == \E w \in calls : outcome[w] = "resolved" /\ ~DoesNotValidate(w)

\* The calls between creating and releasing a DiskArbitration session.
InDASection == {w \in calls : pc[w] \in {"da_session", "da_disk", "da_description"}}

\* C9: at most one call is between creating and releasing a DiskArbitration
\* session, and the mutex is held by no call that has left that section,
\* whichever way it left.
C9_OneCallInDASection ==
  /\ Cardinality(InDASection) <= 1
  /\ \A w \in calls : w \notin InDASection => g_diskArbitrationMutex # w
  /\ \A w \in InDASection : g_diskArbitrationMutex = w

\* One call is inside the section while another waits for the mutex.
C9_Witness ==
  \E v, w \in calls : v # w /\ v \in InDASection /\ pc[w] = "da_lock"

\* C10: no two calls use the volume-monitor singleton (GVolumeMonitor and
\* its mount list) at the same time.
C10_MonitorUsedByOneWorker == Cardinality(monitorUsers) <= 1

\* A call holds the monitor's mount list.
C10_Witness == \E w \in calls : w \in monitorUsers /\ pc[w] = "gio_monitor"

\* C11: a call that resolves has opened the path exactly once, and the
\* capacity figures and the filesystem type of its record describe the object
\* that open reached, whatever was mounted at the path afterwards.
C11_QueriesThroughOneHandle ==
  \A w \in calls :
    outcome[w] = "resolved" =>
      /\ kernel[w].opens = 1
      /\ kernel[w].capacity = kernel[w].opened
      /\ kernel[w].fstype \in {0, kernel[w].opened}

\* A call resolved with capacity figures although the object at the path was
\* replaced after the call's first query of it.
C11_Witness ==
  \E w \in calls :
    /\ outcome[w] = "resolved"
    /\ kernel[w].capacity # 0
    /\ volume > 1
    /\ kernel[w].opened \in {0, 1} /\ kernel[w].fstype \in {0, 1}

\* C12: the attribute write of setHidden lands on the object whose attributes
\* the call read, also when the path is re-pointed to another object between
\* the read and the write.
C12_WriteLandsOnObjectRead ==
  hw.written # 0 => hw.written = hw.readFrom

\* A setHidden call has written although the path no longer names the object
\* whose attributes the call read.
C12_Witness ==
  /\ hw.op = "set"
  /\ hw.written # 0
  /\ hw.readFrom # volume

\* The guards that are alive and hold the descriptor d.
Owners(d) == {g \in DOMAIN guards : guards[g].alive /\ guards[g].fd_ = d}

\* C13: a call never closes more descriptors than it opened and has closed
\* every one it opened when Execute has returned, whichever way it returned;
\* under any sequence of FdGuard operations no descriptor is closed twice,
\* every open descriptor has exactly one owning guard and no guard holds a
\* descriptor that is not open.
C13_DescriptorsClosedOnce ==
  /\ \A w \in calls :
       /\ kernel[w].opens <= 1
       /\ kernel[w].closes <= kernel[w].opens
       /\ pc[w] \in {"onok", "onerror", "done"} => kernel[w].closes = kernel[w].opens
       /\ fd[w] \in {"root", "dir"} <=> kernel[w].closes < kernel[w].opens
  /\ hw.closes <= hw.opens
  /\ hw.pc \in {"onok", "onerror", "done"} => hw.closes = hw.opens
  /\ \A d \in DOMAIN descriptors :
       /\ descriptors[d] # "EBADF"
       /\ descriptors[d] = "open" => Cardinality(Owners(d)) = 1
       /\ descriptors[d] # "open" => Owners(d) = {}

\* Guards have been moved, released and destroyed: one descriptor was closed,
\* another was released to the caller, and no guard is left.
C13_Witness ==
  /\ \E d \in DOMAIN descriptors : descriptors[d] = "closed"
  /\ \E d \in DOMAIN descriptors : descriptors[d] = "released"
  /\ \A g \in DOMAIN guards : ~guards[g].alive /\ guards[g].fd_ = NoFd

\* C14: getVolumeMountPoints never rejects: whatever the read of the mount
\* table returns and whatever a probe does, the call resolves, and the list it
\* resolves with has one entry, with a status of its own, for every mount
\* the enumeration probes.
C14_NeverFailsWholesale ==
  /\ mp_outcome # "rejected"
  /\ mp_outcome = "resolved" =>
       /\ {mp_result[i].mountPoint : i \in 1..Len(mp_result)} = ProbedMounts
       /\ \A i \in 1..Len(mp_result) : mp_result[i].status # ""

\* An enumeration has ended without a single entry: the read of the mount
\* table failed or gave no mount to probe.
C14_Witness ==
  /\ mp_pc = "done"
  /\ mp_outcome # "pending"
  /\ mp_result = <<>>

\* The statuses an entry of the enumeration may carry.
EntryStatuses == {"healthy", "inaccessible", "disconnected", "error", "unknown"}

\* C15: every entry of the resolved list has one of the five statuses; the
\* entry of a probe that never returned within its time limit is
\* "disconnected", and the entry of a probe that threw is "error".
C15_EntryStatusTaxonomy ==
  mp_outcome = "resolved" =>
    \A i \in 1..Len(mp_result) :
      /\ mp_result[i].status \in EntryStatuses
      /\ mp_result[i].mountPoint \in StuckMounts => mp_result[i].status = "disconnected"
      /\ (mntbuf[mp_result[i].mountPoint] = "throws"
            /\ mp_result[i].status \notin {"disconnected", "timeout"})
           => mp_result[i].status = "error"

\* A resolved list holds the entry of a probe that never returned.
C15_Witness ==
  /\ mp_outcome = "resolved"
  /\ \E i \in 1..Len(mp_result) : mp_result[i].mountPoint \in StuckMounts

\* The statuses a volume's record may carry.
RecordStatuses == {"ready", "healthy", "partial", "error"}

\* C16: the status of every record a call resolves with is one of ready,
\* healthy, partial, error.
C16_RecordStatusTaxonomy ==
  \A w \in calls : outcome[w] = "resolved" => result[w].status \in RecordStatuses

\* A call has resolved along the plain success path: none of its queries
\* failed.
C16_Witness ==
  \E w \in calls :
    /\ outcome[w] = "resolved"
    /\ FailedCalls(w) = {}
    /\ \E q \in PrimaryQueries : Issued(w, q)

\* The changes of status the life cycle allows.
AllowedStatusChange(from, to) ==
  \/ from = "" /\ to = "ready"
  \/ from = "ready" /\ to \in {"healthy", "partial"}
  \/ from # "error" /\ to = "error"

\* C17: in a macOS call the status only moves from unset to ready and from
\* ready to healthy or partial, or to error; error is set only when the call
\* fails, a call never resolves with status error, and one that resolves
\* with healthy has had no enrichment fail.
C17_StatusLifeCycle ==
  [][\A w \in calls :
       platform = "darwin" =>
         /\ metadata'[w].status # metadata[w].status =>
              /\ AllowedStatusChange(metadata[w].status, metadata'[w].status)
              /\ metadata'[w].status = "error" => pc'[w] = "onerror"
         /\ outcome'[w] = "resolved" =>
              /\ result'[w].status # "error"
              /\ result'[w].status = "healthy" =>
                   FailedCalls(w) \cap EnrichmentCalls = {}
    ]_vars

\* A macOS call has resolved with status partial after an enrichment failed.
C17_Witness ==
  \E w \in calls :
    /\ platform = "darwin"
    /\ outcome[w] = "resolved"
    /\ result[w].status = "partial"
    /\ FailedCalls(w) \cap EnrichmentCalls # {}

\* The fields the primary queries compute.
PrimaryData(md) == <<md.size, md.used, md.available, md.fstype>>

\* The positions of a call at which the next step belongs to a provider that
\* is not safe to use from a worker thread (GVolumeMonitor, DiskArbitration).
ThreadUnsafeSteps == {"gio_monitor", "da_lock", "da_session", "da_disk", "da_description"}

\* The positions after the primary queries, up to the delivery of the record.
AfterPrimary == ThreadUnsafeSteps \cup {"blkid", "exit", "restore"}

FurtherQueries ==
  {"g_volume_monitor_get_mounts", "blkid_get_cache", "DASessionCreate",
   "DADiskCreateFromBSDName", "DADiskCopyDescription"}

\* C19: a call whose record has the filesystem type of a network file system
\* issues no further provider query, never reaches the GVolumeMonitor, blkid
\* or DiskArbitration steps, never holds the DiskArbitration mutex, and
\* resolves with remote set, status healthy and label, uuid and uri empty.
C19_RemoteShortCircuit ==
  \A w \in calls :
    metadata[w].fstype \in NetworkFsTypes =>
      /\ pc[w] \notin {"gio_monitor", "blkid", "da_lock", "da_session", "da_disk",
                       "da_description"}
      /\ g_diskArbitrationMutex # w
      /\ \A q \in FurtherQueries : ~Issued(w, q)
      /\ outcome[w] = "resolved" =>
           /\ result[w].remote /\ result[w].status = "healthy"
           /\ result[w].label = "" /\ result[w].uuid = "" /\ result[w].uri = ""

\* A macOS call on a network mount has resolved as remote and healthy without
\* a DiskArbitration query.
C19_Witness ==
  \E w \in calls :
    /\ platform = "darwin"
    /\ metadata[w].fstype \in NetworkFsTypes
    /\ outcome[w] = "resolved"
    /\ result[w].remote /\ result[w].status = "healthy"
    /\ ~Issued(w, "DASessionCreate")

\* C20: two spellings of the same existing object validate to the same
\* result, the result is a path and not a refusal, and validating the result
\* returns it unchanged.
C20_SpellingsValidateAlike ==
  pv.pc = "done" =>
    /\ pv.out_q.path # <<>>
    /\ pv.out_q = pv.out_p
    /\ pv.again = pv.out_q

\* The POSIX validator was given "/" and a spelling of it that goes through
\* "..", and returned "/" for both.
C20_Witness ==
  /\ pv.pc = "done" /\ pv.validator = "posix"
  /\ pv.p = <<"/">> /\ Contains(pv.q, <<".", ".">>)
  /\ pv.out_q = Validated(<<"/">>) /\ pv.out_p = pv.out_q /\ pv.again = pv.out_q

\* The object the parent directory of the spelling q names: the working
\* directory when q has no slash, or the errno of its resolution.
ParentObject(q, kindA) ==
  LET last == FindLastSlash(q)
  IN  IF last <= 1 THEN "root" ELSE Lookup(SubSeq(q, 1, last - 1), kindA)

LeafOf(q) == SubSeq(q, FindLastSlash(q) + 1, Len(q))

\* Whether the validation r failed: no path, and an error text.
Failed(r) == r.path = <<>> /\ r.error.errno # ""

\* C21: when the leaf of the spelling is missing and missing paths are
\* allowed, the validator returns the canonical path of the parent with the
\* leaf appended after one slash, or fails when the parent does not resolve;
\* when missing paths are not allowed, or the resolution fails for another
\* reason, it fails.
C21_MissingLeafUnderParent ==
  pv.pc = "checked" =>
    LET q == pv.q
        obj == IF q = <<>> \/ HasNul(q) THEN "EINVAL" ELSE Lookup(q, pv.kindA)
        parent == ParentObject(q, pv.kindA)
    IN  /\ (obj = "ENOENT" /\ ~IsErrno(parent)) =>
              /\ pv.out_q.error.errno = ""
              /\ pv.out_q.path =
                   (IF parent = "root" THEN <<"/">> ELSE CanonicalOf(parent) \o <<"/">>)
                     \o LeafOf(q)
              /\ ~Contains(pv.out_q.path, <<"/", "/">>)
        /\ (obj = "ENOENT" /\ IsErrno(parent)) => Failed(pv.out_q)
        /\ (obj \notin {"root", "dir", "file", "ENOENT"}) => Failed(pv.out_q)
        /\ (obj \notin {"root", "dir", "file"}) => Failed(pv.out_p)

\* A missing entry directly under the root was validated for writing and came
\* back as the root joined with the leaf, while validation for reading failed.
C21_Witness ==
  /\ pv.pc = "checked" /\ pv.kindA = "none"
  /\ pv.q = <<"/", "a">>
  /\ pv.out_q = Validated(<<"/", "a">>)
  /\ Failed(pv.out_p)

\* C22: no reference taken from a C provider is released twice, and when the
\* routine is left, normally or by an exception, none is still held.
C22_ReleasedExactlyOnce ==
  /\ rs.twice = {}
  /\ rs.pc = "done" => rs.live = {}

\* The blkid lookups found both tags, copied them and released the two
\* strings and the cache.
C22_Witness ==
  /\ rs.routine = "blkid" /\ rs.pc = "done" /\ ~rs.thrown
  /\ rs.copied = {<<"UUID", 0>>, <<"LABEL", 0>>}
  /\ rs.released = rs.copied \cup {<<"cache", 0>>}
  /\ rs.live = {} /\ rs.twice = {}

\* The first integer from which a double no longer holds every integer.
MaxSafeInteger == Pow2(DoubleBits)

\* Whether the field x of the worker's record, delivered as y, is written,
\* non-negative and small enough to be exact.
SafeFigure(x, y) == x # Uninit /\ y = x /\ y >= 0 /\ y < MaxSafeInteger

\* C23: size, used and available of every record a call resolves with were
\* written by the worker, are not negative and are below the limit up to which
\* a double is exact.
C23_FiguresDefinedAndExact ==
  \A w \in calls :
    outcome[w] = "resolved" =>
      /\ SafeFigure(metadata[w].size, result[w].size)
      /\ SafeFigure(metadata[w].used, result[w].used)
      /\ SafeFigure(metadata[w].available, result[w].available)

\* A call has resolved with three figures that the worker wrote and that are
\* exact, used and available adding up to size.
C23_Witness ==
  \E w \in calls :
    /\ outcome[w] = "resolved"
    /\ SafeFigure(metadata[w].size, result[w].size)
    /\ SafeFigure(metadata[w].used, result[w].used)
    /\ SafeFigure(metadata[w].available, result[w].available)
    /\ result[w].size > 0
    /\ result[w].used + result[w].available = result[w].size

\* Whether the path names nothing: its resolution ends in ENOENT.
Missing(path) == path # <<>> /\ ~HasNul(path) /\ Lookup(path, entryA) = "ENOENT"

\* Whether the error is the distinct "not found" condition.
IsNotFound(e) == e.errno = "Path not found"

\* Whether the error names the failing operation and carries its errno.
IsIoError(e) == e.operation # "" /\ IsErrno(e.errno)

\* C24: a hidden worker or a metadata call given a path that names nothing
\* ends rejected with the "not found" condition; a hidden worker whose open
\* or fstat failed for another reason ends rejected with an error that names
\* the operation and carries the errno.
C24_NotFoundIsDistinct ==
  /\ (hw.pc = "done" /\ Missing(hw.path_)) =>
       hw.outcome = "rejected" /\ IsNotFound(hw.error)
  /\ (hw.pc = "done" /\ platform = "darwin" /\ ~Missing(hw.path_)
        /\ hw.validated_path # <<>> /\ hw.readFrom = 0) =>
       hw.outcome = "rejected" /\ IsIoError(hw.error)
  /\ \A w \in calls :
       (pc[w] = "done" /\ Missing(arg[w])) =>
         outcome[w] = "rejected" /\ IsNotFound(errorMsg[w])

\* isHidden on macOS was given a path that names nothing and was rejected
\* with "Path not found".
C24_Witness ==
  /\ platform = "darwin" /\ hw.op = "get" /\ hw.pc = "done"
  /\ Missing(hw.path_)
  /\ hw.outcome = "rejected" /\ IsNotFound(hw.error)

\* The probes that have been started and have not returned.
RunningProbes == {m \in Mounts : probe[m] = "running"}

\* The most probes an enumeration runs at once.
ProbeCap == IF mp_platform = "darwin" THEN maxConcurrentChecks ELSE poolSize

\* C25: at every moment of an enumeration the probes that were started and
\* have not returned, those given up after a timeout included, are at most
\* the batch width on macOS and the number of pool threads on Windows.
C25_ProbesWithinCap ==
  mp_platform \in {"darwin", "windows"} => Cardinality(RunningProbes) <= ProbeCap

\* A macOS enumeration of more mounts than a batch holds has given up a probe
\* of its full first batch that is still running.
C25_Witness ==
  /\ mp_platform = "darwin" /\ Len(mntbuf) > maxConcurrentChecks
  /\ Cardinality(RunningProbes) = maxConcurrentChecks
  /\ \E k \in 1..Len(mountPoints_) :
       /\ mountPoints_[k].status = "disconnected"
       /\ probe[mountPoints_[k].mountPoint] = "running"
\* C26: every wait started on behalf of a call has the timeoutMs the caller
\* supplied (5000 when the option is omitted) as its ceiling, and the call
\* never waits longer than that, in getVolumeMetadata as well as in
\* getVolumeMountPoints.
SuppliedTimeoutMs == IF tm.has THEN tm.given ELSE DefaultTimeoutMs

C26_TimeoutMsIsTheCeiling ==
  tm.pc \in {"waiting", "joining", "returned"} =>
    /\ tm.ceiling = SuppliedTimeoutMs
    /\ tm.elapsed <= SuppliedTimeoutMs

\* a getVolumeMountPoints call on Windows was given a timeoutMs below the
\* default and its wait timed out
C26_Witness ==
  /\ tm.pc = "returned" /\ tm.api = "getVolumeMountPoints/windows"
  /\ tm.has /\ tm.given < DefaultTimeoutMs
  /\ tm.result = "timeout" /\ tm.elapsed = tm.given

\* C27: under every interleaving of Push and Pop each task pushed before
\* shutdown is run exactly once: no task is run twice, no task leaves the
\* queue without being run (also when shutdown is signalled between the
\* dequeue and the return of Pop), a queued task never sits beside an idle
\* worker with the event non-signalled, and when the workers have ended
\* every task pushed before shutdown has been run.
NoTaskRunTwice == \A t \in Tasks : tp.ran[t] <= 1

NoTaskDropped == tp.dropped = {}

NoLostWakeUp ==
  (/\ tp.tasks # <<>> /\ ~tp.shutdown
   /\ tp.sub.pc # "signal"
   /\ \A w \in Workers : tp.wk[w].pc # "dequeue") => tp.event

AllPushedRun ==
  (\A w \in Workers : tp.wk[w].pc = "exited") => \A t \in tp.pushed : tp.ran[t] = 1

C27_EachTaskRunExactlyOnce ==
  /\ NoTaskRunTwice
  /\ NoTaskDropped
  /\ NoLostWakeUp
  /\ AllPushedRun

\* both tasks were pushed before shutdown and run once, one by each worker's
\* turn at the queue, and the workers have ended
C27_Witness ==
  /\ tp.pushed = Tasks /\ \A t \in Tasks : tp.ran[t] = 1
  /\ tp.dropped = {} /\ tp.shutdown
  /\ \A w \in Workers : tp.wk[w].pc = "exited"

\* C28: once Shutdown has destroyed the ThreadData of the threads no worker
\* reads it, also a worker that was still running a task when the wait of
\* 5000 ms expired, and no thread handle is closed twice although Shutdown
\* is called a second time by the destructor.
C28_BookkeepingUntouchedAfterShutdown ==
  /\ ~tp.freedRead
  /\ \A w \in Workers : tp.closes[w] <= 1

\* Shutdown has run twice while a worker is still inside its task
C28_Witness ==
  /\ tp.round = 2 /\ tp.data = "freed"
  /\ \A w \in Workers : tp.closes[w] = 1
  /\ \E w \in Workers : tp.wk[w].pc = "run"
  /\ ~tp.freedRead

\* C29: a getVolumeMetadata call whose capacity query has succeeded
\* completes in the end, also when another call never returns from its
\* DiskArbitration provider call inside the section the mutex guards.
C29_OthersCompleteBesideStuckCall ==
  \A w \in CallIds \ {StuckCall} : (pc[w] = "da_check") ~> (pc[w] = "done")

\* the stuck call is inside the guarded section and another call, its
\* capacity figures computed, waits for the mutex
C29_Witness ==
  /\ g_diskArbitrationMutex = StuckCall
  /\ pc[StuckCall] \in {"da_session", "da_disk", "da_description"}
  /\ \E w \in CallIds \ {StuckCall} : pc[w] = "da_lock" /\ metadata[w].status = "ready"

\* C30: the write of a successful setHidden(path, v) changes only the
\* hidden bit: every other attribute bit of every object keeps the value it
\* had immediately before the write, also when another actor changed it
\* after the worker read the flags, and the hidden bit of the object
\* written is v afterwards.
HiddenWrite == hw.pc \in {"fchflags", "setattr"} /\ hw'.pc = "onok"

C30_OnlyHiddenBitChanges ==
  [][HiddenWrite =>
       /\ \A o \in 1..MaxVolumes :
            attributes'[o] \ {"HIDDEN"} = attributes[o] \ {"HIDDEN"}
       /\ ("HIDDEN" \in attributes'[hw'.written]) = hw.hidden_]_vars

\* a setHidden(path, true) has resolved on an object that carries the other
\* bit as well
C30_Witness ==
  /\ hw.op = "set" /\ hw.outcome = "resolved" /\ hw.hidden_
  /\ hw.written # 0 /\ attributes[hw.written] = {"HIDDEN", "OTHER"}

====
